---- MODULE Spec2Model ----
(***************************************************************************)
(* goamt: the entry repository and job ledger (package database), its      *)
(* crash-recovery pass, and the transform pipeline that drives it.         *)
(*                                                                         *)
(* The SQLite store is modelled by its two tables.  A library row is a     *)
(* record [id, path, discovered, transcoded, hash]; the jobs table is kept *)
(* as the number of job rows per library_id (jobs.id and jobs.start_time   *)
(* are written but never read by any query of the program).  A file's      *)
(* content is identified with its fingerprint.                             *)
(***************************************************************************)
EXTENDS Integers, Sequences, FiniteSets, TLC

\* ------------------------------------------------------------------ bounds
MaxId == 2          \* library rows ever inserted (autoincrement ids 1..MaxId)
MaxOpens == 2       \* successful Opens in a row that are counted

Bases == {"a", "b"}
Workers == {"w1", "w2"}
Hashes == {1, 2}    \* file contents, each identified with its fingerprint
Times == {1, 2}     \* discovery times
Ids == 1..MaxId

\* ------------------------------------------------------------------ value
\* A path is <<base, markers, extension>>: the base name, the number of
\* ".transcoding" markers in front of the extension, and the extension.
TargetExtension == ".mp4"
SupportedExtensions == {".mp4", ".avi"}

\* A *int64: <<>> is nil, <<t>> points at t.
Nil == << >>
Int64P(t) == <<t>>
Stamp == 1          \* the value time.Now().Unix() yields at completion

\* utils.ReplaceExtension(path, value.TargetExtension): the text in front of
\* the last extension, then ".mp4".
ReplaceExtensionTarget(path) == <<path[1], path[2], TargetExtension>>

\* utils.ReplaceExtension(path, value.TranscodingExtension): the text in
\* front of the last extension, then ".transcoding" + ".mp4".
ReplaceExtensionTranscoding(path) == <<path[1], path[2] + 1, TargetExtension>>

\* Paths the walker may yield: a supported extension and no marker.
LibraryPaths == {<<b, 0, x>> : b \in Bases, x \in SupportedExtensions}

\* value.Entry
Entry(id, path, discovered, transcoded, hash) ==
  [id |-> id, path |-> path, discovered |-> discovered,
   transcoded |-> transcoded, hash |-> hash]

\* the zero value.Entry
ZeroEntry == Entry(0, <<"", 0, "">>, 0, Nil, 0)

VARIABLES
  library,    \* set of library rows
  jobs,       \* jobs[i]: number of job rows with library_id = i
  seq,        \* sqlite_sequence of library: the largest id ever handed out
  files,      \* the file system: path -> content (fingerprint), where present
  fk,         \* foreign keys are enforced on the connection serving transactions
  handle,     \* "closed", "opening" (Open is running recovery) or "open"
  todo,       \* rows of the recovery query not yet handed to the callback
  pc,         \* per worker: where it is in the transform pipeline
  ent,        \* per worker: the entry BeginTranscoding returned to it
  last,       \* the last operation, its entry and its error
  opens,      \* successful Opens in a row with no other operation in between
  again,      \* the last operation repeated the one before it, entry included
  replaced,   \* the last operation was an Upsert that replaced a row by path
  pool,       \* the worker pool of the running command, its queue and its error channel
  lock,       \* callers inside wrapTransaction's critical section, and their transactions
  disk,       \* what is at the store's location: whether anything exists, and user_version
  rd          \* the reader HashFile is fingerprinting a file through

vars == <<library, jobs, seq, files, fk, handle, todo, pc, ent, last, opens, again, replaced,
          pool, lock, disk, rd>>

\* ------------------------------------------------------------------ files
PathExists(fs, path) == path \in DOMAIN fs

\* os.Remove of an existing file
RemoveFile(fs, path) == [p \in (DOMAIN fs) \ {path} |-> fs[p]]

\* writing a whole file
WriteFile(fs, path, content) ==
  [p \in (DOMAIN fs) \cup {path} |-> IF p = path THEN content ELSE fs[p]]

\* os.Rename of an existing file (replaces an existing destination)
RenameFile(fs, from, to) ==
  IF from = to THEN fs
  ELSE [p \in ((DOMAIN fs) \ {from}) \cup {to} |-> IF p = to THEN fs[from] ELSE fs[p]]

\* utils.HashFile: the fingerprint of the file's content, an error if the
\* file cannot be opened.
HashFile(fs, path) ==
  IF PathExists(fs, path) THEN [err |-> "", hash |-> fs[path]]
  ELSE [err |-> "io", hash |-> 0]

\* ------------------------------------------------------------------ store
\* The persisted store: both tables and the autoincrement counter.
Store == [library |-> library, jobs |-> jobs, seq |-> seq]

\* The outcome of one transaction run by wrapTransaction: on an error the
\* transaction is rolled back and the store is as it was.
Commit(s) == [err |-> "", store |-> s]
Rollback(msg, s) == [err |-> msg, store |-> s]

ErrQueryReturnedNoRows == "no rows"

HasJob(s, id) == id \in DOMAIN s.jobs /\ s.jobs[id] > 0

\* addJob: insert into jobs (library_id, start_time); library_id is unique
\* and, where foreign keys are enforced, references a library row.
addJob(s, fkOn, id) ==
  IF HasJob(s, id) THEN Rollback("UNIQUE constraint failed: jobs.library_id", s)
  ELSE IF fkOn /\ ~(\E r \in s.library : r.id = id)
    THEN Rollback("FOREIGN KEY constraint failed", s)
  ELSE Commit([s EXCEPT !.jobs[id] = 1])

\* removeJob: delete from jobs where library_id = ?
removeJob(s, id) ==
  IF id \in DOMAIN s.jobs THEN [s EXCEPT !.jobs[id] = 0] ELSE s

\* A faulty Upsert, for C12: on a fingerprint collision it also writes the
\* incoming discovered and transcoded fields.
UpsertTx_WritesFields(s, fkOn, entry) ==
  LET byHash == {r \in s.library : r.hash = entry.hash}
      byPath == {r \in s.library : r.path = entry.path}
      fresh == Entry(s.seq + 1, entry.path, entry.discovered, entry.transcoded,
                     entry.hash)
  IN IF byHash # {}
       THEN LET row == CHOOSE r \in byHash : TRUE
            IN IF byPath \ {row} # {}
                 THEN Rollback("UNIQUE constraint failed: library.path", s)
               ELSE Commit([s EXCEPT !.library =
                              (@ \ {row}) \cup {Entry(row.id, entry.path, entry.discovered,
                                                      entry.transcoded, row.hash)}])
     ELSE IF byPath # {}
       THEN IF fkOn /\ (\E r \in byPath : HasJob(s, r.id))
              THEN Rollback("FOREIGN KEY constraint failed", s)
            ELSE Commit([s EXCEPT !.library = (@ \ byPath) \cup {fresh},
                                  !.seq = @ + 1])
     ELSE Commit([s EXCEPT !.library = @ \cup {fresh}, !.seq = @ + 1])

\* A faulty Upsert, for C30: on a fingerprint collision it also writes the
\* incoming transcoded field, null in every entry an update run upserts.
UpsertTx_ResetsTimestamp(s, fkOn, entry) ==
  LET byHash == {r \in s.library : r.hash = entry.hash}
      byPath == {r \in s.library : r.path = entry.path}
      fresh == Entry(s.seq + 1, entry.path, entry.discovered, entry.transcoded,
                     entry.hash)
  IN IF byHash # {}
       THEN LET row == CHOOSE r \in byHash : TRUE
            IN IF byPath \ {row} # {}
                 THEN Rollback("UNIQUE constraint failed: library.path", s)
               ELSE Commit([s EXCEPT !.library =
                              (@ \ {row}) \cup {Entry(row.id, entry.path, row.discovered,
                                                      entry.transcoded, row.hash)}])
     ELSE IF byPath # {}
       THEN IF fkOn /\ (\E r \in byPath : HasJob(s, r.id))
              THEN Rollback("FOREIGN KEY constraint failed", s)
            ELSE Commit([s EXCEPT !.library = (@ \ byPath) \cup {fresh},
                                  !.seq = @ + 1])
     ELSE Commit([s EXCEPT !.library = @ \cup {fresh}, !.seq = @ + 1])

\* A faulty Upsert, for C13: on a fingerprint collision with another path it
\* replaces whatever row holds the incoming path.
UpsertTx_ReplacesOnRename(s, fkOn, entry) ==
  LET byHash == {r \in s.library : r.hash = entry.hash}
      byPath == {r \in s.library : r.path = entry.path}
      fresh == Entry(s.seq + 1, entry.path, entry.discovered, entry.transcoded,
                     entry.hash)
  IN IF byHash # {}
       THEN LET row == CHOOSE r \in byHash : TRUE
            IN IF row.path = entry.path THEN Commit(s)
               ELSE Commit([s EXCEPT !.library =
                              (@ \ ({row} \cup byPath)) \cup {[row EXCEPT !.path = entry.path]}])
     ELSE IF byPath # {}
       THEN IF fkOn /\ (\E r \in byPath : HasJob(s, r.id))
              THEN Rollback("FOREIGN KEY constraint failed", s)
            ELSE Commit([s EXCEPT !.library = (@ \ byPath) \cup {fresh},
                                  !.seq = @ + 1])
     ELSE Commit([s EXCEPT !.library = @ \cup {fresh}, !.seq = @ + 1])

\* A faulty Upsert, for C14: on a conflict on path alone it updates the
\* stored row's fingerprint and keeps the rest of the row.
UpsertTx_KeepsRowOnReplace(s, fkOn, entry) ==
  LET byHash == {r \in s.library : r.hash = entry.hash}
      byPath == {r \in s.library : r.path = entry.path}
      fresh == Entry(s.seq + 1, entry.path, entry.discovered, entry.transcoded,
                     entry.hash)
  IN IF byHash # {}
       THEN LET row == CHOOSE r \in byHash : TRUE
            IN IF row.path = entry.path THEN Commit(s)
               ELSE IF byPath # {}
                 THEN Rollback("UNIQUE constraint failed: library.path", s)
               ELSE Commit([s EXCEPT !.library =
                              (@ \ {row}) \cup {[row EXCEPT !.path = entry.path]}])
     ELSE IF byPath # {}
       THEN Commit([s EXCEPT !.library =
                      (@ \ byPath) \cup {[r EXCEPT !.hash = entry.hash] : r \in byPath}])
     ELSE Commit([s EXCEPT !.library = @ \cup {fresh}, !.seq = @ + 1])

\* Upsert's statement:
\*   insert or replace into library (path, discovered, transcoded, hash)
\*   values (?, ?, ?, ?)
\*   on conflict(hash) do update set path=excluded.path where path != excluded.path;
\* A conflict on hash runs the DO UPDATE (which resolves its own conflicts by
\* ABORT); a conflict on path alone is resolved by REPLACE: the old row is
\* deleted and a new row, with a new id, is inserted.
UpsertTx(s, fkOn, entry) ==
  LET byHash == {r \in s.library : r.hash = entry.hash}
      byPath == {r \in s.library : r.path = entry.path}
      fresh == Entry(s.seq + 1, entry.path, entry.discovered, entry.transcoded,
                     entry.hash)
  IN IF byHash # {}
       THEN LET row == CHOOSE r \in byHash : TRUE
            IN IF row.path = entry.path THEN Commit(s)
               ELSE IF byPath # {}
                 THEN Rollback("UNIQUE constraint failed: library.path", s)
               ELSE Commit([s EXCEPT !.library =
                              (@ \ {row}) \cup {[row EXCEPT !.path = entry.path]}])
     ELSE IF byPath # {}
       THEN IF fkOn /\ (\E r \in byPath : HasJob(s, r.id))
              THEN Rollback("FOREIGN KEY constraint failed", s)
            ELSE Commit([s EXCEPT !.library = (@ \ byPath) \cup {fresh},
                                  !.seq = @ + 1])
     ELSE Commit([s EXCEPT !.library = @ \cup {fresh}, !.seq = @ + 1])

\* Whether Upsert's statement meets a conflict on path alone, which "or
\* replace" resolves.
UpsertReplaces(s, entry) ==
  /\ ~(\E r \in s.library : r.hash = entry.hash)
  /\ \E r \in s.library : r.path = entry.path

\* Whether Upsert's statement asks for a new id.
UpsertInserts(s, entry) == ~(\E r \in s.library : r.hash = entry.hash)

\* A faulty Remove, for C20: it deletes the library row and leaves the job.
RemoveTx_KeepsJob(s, entry) ==
  Commit([s EXCEPT !.library = {r \in @ : r.id # entry.id}])

\* Remove: delete the job, then delete from library where id = ?
RemoveTx(s, entry) ==
  LET t == removeJob(s, entry.id)
  IN Commit([t EXCEPT !.library = {r \in @ : r.id # entry.id}])

\* A faulty query, for C17: the rows without a job, completed or not.
Eligible_IgnoresTimestamp(s) == {r \in s.library : ~HasJob(s, r.id)}

\* A faulty query, for C1: the rows with transcoded null, claimed or not.
Eligible_IgnoresJobs(s) == {r \in s.library : r.transcoded = Nil}

\* BeginTranscoding's query: rows with transcoded null and no job ...
Eligible(s) == {r \in s.library : r.transcoded = Nil /\ ~HasJob(s, r.id)}

\* A faulty order, for C16: order by id asc limit 1.
Oldest_ById(s) == {r \in Eligible(s) : \A q \in Eligible(s) : r.id <= q.id}

\* ... order by discovered asc limit 1 (any of the oldest, on a tie).
Oldest(s) == {r \in Eligible(s) : \A q \in Eligible(s) : r.discovered <= q.discovered}

\* What BeginTranscoding scans into the entry it returns: id, path, hash.
Scanned(row) == Entry(row.id, row.path, 0, Nil, row.hash)

\* BeginTranscoding: the entry and error it can return, with the store it
\* leaves; no row is ErrQueryReturnedNoRows, otherwise a job is added.
BeginTx(s, fkOn) ==
  IF Eligible(s) = {}
    THEN {[err |-> ErrQueryReturnedNoRows, store |-> s, entry |-> ZeroEntry]}
  ELSE {[err |-> addJob(s, fkOn, row.id).err, store |-> addJob(s, fkOn, row.id).store,
         entry |-> Scanned(row)] : row \in Oldest(s)}

\* A faulty CompleteTranscoding, for C8: it updates the row and leaves the job.
CompleteTranscoding_KeepsJob(s, fs, entry) ==
  LET h == HashFile(fs, entry.path)
      others == {r \in s.library : r.id # entry.id}
      mine == {r \in s.library : r.id = entry.id}
      updated == {[r EXCEPT !.path = entry.path, !.transcoded = Int64P(Stamp),
                            !.hash = h.hash] : r \in mine}
  IN IF h.err # "" THEN Rollback("failed to hash file", s)
     ELSE IF mine # {} /\ (\E q \in others : q.path = entry.path)
       THEN Rollback("UNIQUE constraint failed: library.path", s)
     ELSE IF mine # {} /\ (\E q \in others : q.hash = h.hash)
       THEN Rollback("UNIQUE constraint failed: library.hash", s)
     ELSE Commit([s EXCEPT !.library = others \cup updated])

\* A faulty CompleteTranscoding, for C9: it removes the job before it
\* rehashes the file, outside the transaction.
CompleteTranscoding_DropsJobFirst(s, fs, entry) ==
  LET h == HashFile(fs, entry.path)
      t == removeJob(s, entry.id)
      others == {r \in s.library : r.id # entry.id}
      mine == {r \in s.library : r.id = entry.id}
      updated == {[r EXCEPT !.path = entry.path, !.transcoded = Int64P(Stamp),
                            !.hash = h.hash] : r \in mine}
  IN IF h.err # "" THEN Rollback("failed to hash file", t)
     ELSE IF mine # {} /\ (\E q \in others : q.path = entry.path)
       THEN Rollback("UNIQUE constraint failed: library.path", t)
     ELSE IF mine # {} /\ (\E q \in others : q.hash = h.hash)
       THEN Rollback("UNIQUE constraint failed: library.hash", t)
     ELSE Commit([t EXCEPT !.library = others \cup updated])

\* A faulty CompleteTranscoding, for C15: the update ignores the fingerprint
\* of the other rows.
CompleteTranscoding_AnyHash(s, fs, entry) ==
  LET h == HashFile(fs, entry.path)
      others == {r \in s.library : r.id # entry.id}
      mine == {r \in s.library : r.id = entry.id}
      updated == {[r EXCEPT !.path = entry.path, !.transcoded = Int64P(Stamp),
                            !.hash = h.hash] : r \in mine}
  IN IF h.err # "" THEN Rollback("failed to hash file", s)
     ELSE IF mine # {} /\ (\E q \in others : q.path = entry.path)
       THEN Rollback("UNIQUE constraint failed: library.path", s)
     ELSE Commit(removeJob([s EXCEPT !.library = others \cup updated], entry.id))

\* A faulty CompleteTranscoding, for C18: the update leaves the stored
\* fingerprint.
CompleteTranscoding_StoredHash(s, fs, entry) ==
  LET h == HashFile(fs, entry.path)
      others == {r \in s.library : r.id # entry.id}
      mine == {r \in s.library : r.id = entry.id}
      updated == {[r EXCEPT !.path = entry.path, !.transcoded = Int64P(Stamp)] : r \in mine}
  IN IF h.err # "" THEN Rollback("failed to hash file", s)
     ELSE IF mine # {} /\ (\E q \in others : q.path = entry.path)
       THEN Rollback("UNIQUE constraint failed: library.path", s)
     ELSE Commit(removeJob([s EXCEPT !.library = others \cup updated], entry.id))

\* CompleteTranscoding: rehash entry.Path, then in one transaction
\*   update library set path = ?, transcoded = ?, hash = ? where id = ?
\* and remove the job.
CompleteTranscoding(s, fs, entry) ==
  LET h == HashFile(fs, entry.path)
      others == {r \in s.library : r.id # entry.id}
      mine == {r \in s.library : r.id = entry.id}
      updated == {[r EXCEPT !.path = entry.path, !.transcoded = Int64P(Stamp),
                            !.hash = h.hash] : r \in mine}
  IN IF h.err # "" THEN Rollback("failed to hash file", s)
     ELSE IF mine # {} /\ (\E q \in others : q.path = entry.path)
       THEN Rollback("UNIQUE constraint failed: library.path", s)
     ELSE IF mine # {} /\ (\E q \in others : q.hash = h.hash)
       THEN Rollback("UNIQUE constraint failed: library.hash", s)
     ELSE Commit(removeJob([s EXCEPT !.library = others \cup updated], entry.id))

\* A faulty cancelTranscoding, for C19: delete from jobs, with no where clause.
CancelTx_EveryJob(s, entry) == Commit([s EXCEPT !.jobs = [i \in DOMAIN s.jobs |-> 0]])

\* cancelTranscoding: remove the job.
CancelTx(s, entry) == Commit(removeJob(s, entry.id))

\* ------------------------------------------------------------------ recovery
\* recoverIncompleteJobs' query: jobs inner join library.
IncompleteJobs(s) == {r \in s.library : HasJob(s, r.id)}

\* A faulty classification, for C5: only a changed fingerprint counts.
IsCompleted_HashOnly(fs, entry) ==
  LET h == HashFile(fs, entry.path)
  IN h.err = "" /\ h.hash # entry.hash

\* The classification of one incomplete job.
IsCompleted(fs, entry) ==
  LET h == HashFile(fs, entry.path)
  IN \/ h.err = "" /\ h.hash # entry.hash
     \/ /\ ~PathExists(fs, entry.path)
        /\ PathExists(fs, ReplaceExtensionTranscoding(entry.path))

\* A faulty completeIncompleteJob, for C6: after the rename it cancels the
\* job instead of finalizing the entry.
completeIncompleteJob_Cancels(s, fs, entry) ==
  LET inter == ReplaceExtensionTranscoding(entry.path)
      target == ReplaceExtensionTarget(entry.path)
      fs1 == IF PathExists(fs, inter) THEN RenameFile(fs, inter, target) ELSE fs
      res == CancelTx(s, entry)
  IN [op |-> "completeIncompleteJob", err |-> res.err, store |-> res.store,
      files |-> fs1]

\* completeIncompleteJob: rename the intermediate to the target (a missing
\* intermediate is tolerated), then CompleteTranscoding under the target path.
completeIncompleteJob(s, fs, entry) ==
  LET inter == ReplaceExtensionTranscoding(entry.path)
      target == ReplaceExtensionTarget(entry.path)
      fs1 == IF PathExists(fs, inter) THEN RenameFile(fs, inter, target) ELSE fs
      res == CompleteTranscoding(s, fs1, [entry EXCEPT !.path = target])
  IN [op |-> "completeIncompleteJob", err |-> res.err, store |-> res.store,
      files |-> fs1]

\* A faulty rollbackIncompleteJob, for C7: it leaves the intermediate artifact.
rollbackIncompleteJob_KeepsIntermediate(s, fs, entry) ==
  LET res == CancelTx(s, entry)
  IN [op |-> "rollbackIncompleteJob", err |-> res.err, store |-> res.store,
      files |-> fs]

\* rollbackIncompleteJob: remove the intermediate (a missing one is
\* tolerated), then cancel the job.
rollbackIncompleteJob(s, fs, entry) ==
  LET inter == ReplaceExtensionTranscoding(entry.path)
      fs1 == IF PathExists(fs, inter) THEN RemoveFile(fs, inter) ELSE fs
      res == CancelTx(s, entry)
  IN [op |-> "rollbackIncompleteJob", err |-> res.err, store |-> res.store,
      files |-> fs1]

\* The callback recoverIncompleteJobs runs for one row.
RecoverOne(s, fs, entry) ==
  IF IsCompleted(fs, entry) THEN completeIncompleteJob(s, fs, entry)
  ELSE rollbackIncompleteJob(s, fs, entry)

\* ------------------------------------------------------------------ pool state
\* transcodeOptions.entries: how many entries one transcode run claims.
MaxEntries == 2

\* Pool.Start: entryStream is make(chan value.Entry, 1024).
QueueCap == 1024

\* transcodeOptions.threads, as the set of workers Start spawns.
Threads == {{}, {"w1"}, {"w1", "w2"}}

\* An error value: nil is NoErr, otherwise the message and the entry whose
\* consume or drain produced it.
Err(msg, id) == [err |-> msg, id |-> id]
NoErr == Err("", 0)

\* What queueEntry returned for the entry offered last.
Offer(entry, queued, err) == [entry |-> entry, queued |-> queued, err |-> err]

\* No command with a pool is running.
NoPool == [main |-> "none"]

\* The pool of a transcode command that has opened the store.
NewPool ==
  [main |-> "claiming",    \* where the command's own goroutine is
   started |-> {},         \* the workers Start spawned
   entries |-> << >>,      \* claimed entries not offered yet
   queue |-> << >>,        \* entryStream's buffer
   cap |-> QueueCap,       \* entryStream's capacity
   errors |-> << >>,       \* errorStream's buffer
   cancelled |-> FALSE,    \* ctx is done
   busy |-> {},            \* workers inside an iteration of the range loop
   exited |-> {},          \* workers whose goroutine returned
   stop |-> FALSE,         \* Stop has been called
   atStop |-> {},          \* ids of the entries in entryStream when Stop closed it
   result |-> NoErr,       \* what Stop returned, once main = "stopped"
   offer |-> Offer(ZeroEntry, FALSE, NoErr),
   accepted |-> {},        \* ids of entries queueEntry returned (true, nil) for
   rejected |-> {},        \* ids of entries queueEntry returned false for
   consumed |-> [i \in Ids |-> 0],   \* times a worker received the entry
   drained |-> [i \in Ids |-> 0],    \* times Stop handed the entry to drain
   sent |-> [w \in Workers |-> 0],   \* errors the worker sent to errorStream
   after |-> [w \in Workers |-> 0],  \* consumes the worker began with ctx done
   removed |-> {},         \* ids of the entries the claim loop removed
   overlay |-> [untranscoded |-> {}, transcoded |-> {}]]  \* the paths convert read

\* No file is being fingerprinted.
NoReader == [at |-> "none"]

\* The empty store, as Create leaves it.
EmptyStore == [library |-> {}, jobs |-> [i \in Ids |-> 0], seq |-> 0]

\* The lock of a handle that one caller at a time uses.
NoLock == [held |-> {}]

\* The lock of a handle that concurrent callers share, free.
FreeLock ==
  [held |-> {},                                      \* callers between Lock and Unlock
   call |-> [w \in Workers |-> [op |-> "", entry |-> ZeroEntry, err |-> ""]],
   snap |-> [w \in Workers |-> EmptyStore],           \* the store their transaction began on
   hash |-> [w \in Workers |-> 0]]                    \* what HashFile returned to them

\* A store created by this program: user_version is DatabaseVersionCurrent.
DatabaseVersionCurrent == 1
Disk(exists, version) == [exists |-> exists, version |-> version]
StoreV1 == Disk(TRUE, DatabaseVersionCurrent)

\* The largest user_version a store at the location may carry.
MaxVersion == 2

\* A faulty Supported, for C29: any version but zero.
Supported_NonZero(d) == d # 0

\* DatabaseVersion.Supported
Supported(d) == d # 0 /\ d <= 1

\* Open's checks ahead of recovery: the error it returns, "" for none.
OpenError(d) ==
  IF ~d.exists THEN "ErrNotFound"
  ELSE IF ~Supported(d.version) THEN "ErrUnknownVersion"
  ELSE ""

\* ------------------------------------------------------------------ actions
Op(op, entry, err) == [op |-> op, entry |-> entry, err |-> err]

\* The media files present when the store is created: a.avi and b.mp4.
InitialFiles ==
  {[p \in {<<"a", 0, ".avi">>, <<"b", 0, ".mp4">>} |-> IF p[1] = "a" THEN 1 ELSE 2]}

\* Create on a library directory whose media files are already there.
Init ==
  /\ library = {}
  /\ jobs = [i \in Ids |-> 0]
  /\ seq = 0
  /\ files \in InitialFiles
  /\ fk = TRUE
  /\ handle = "open"
  /\ todo = {}
  /\ pc = [w \in Workers |-> "idle"]
  /\ ent = [w \in Workers |-> ZeroEntry]
  /\ last = Op("Create", ZeroEntry, "")
  /\ opens = 0
  /\ again = FALSE
  /\ replaced = FALSE
  /\ pool = NoPool
  /\ lock = NoLock
  /\ rd = NoReader
  /\ disk = StoreV1

SetStore(s) ==
  /\ library' = s.library
  /\ jobs' = s.jobs
  /\ seq' = s.seq

\* Database.Upsert
Upsert(entry) ==
  /\ handle = "open"
  /\ opens' = 0
  /\ again' = (last.op = "Upsert" /\ last.entry = entry)
  /\ replaced' = (UpsertReplaces(Store, entry) /\ UpsertTx(Store, fk, entry).err = "")
  /\ UpsertInserts(Store, entry) => seq < MaxId
  /\ LET res == UpsertTx(Store, fk, entry)
     IN /\ SetStore(res.store)
        /\ last' = Op("Upsert", entry, res.err)
  /\ UNCHANGED <<pool, lock, disk, files, fk, handle, todo, pc, ent, rd>>

\* upsertEntry, the update pool's consume: fingerprint the file, then Upsert
upsertEntry(path, discovered) ==
  /\ HashFile(files, path).err = ""
  /\ Upsert(Entry(0, path, discovered, Nil, HashFile(files, path).hash))

\* Database.BeginTranscoding, called for worker w
BeginTranscoding(w) ==
  /\ handle = "open"
  /\ opens' = 0
  /\ again' = FALSE
  /\ replaced' = FALSE
  /\ pc[w] = "idle"
  /\ \E res \in BeginTx(Store, fk) :
       /\ SetStore(res.store)
       /\ last' = Op("BeginTranscoding", res.entry, res.err)
       /\ IF res.err = ""
            THEN /\ pc' = [pc EXCEPT ![w] = "claimed"]
                 /\ ent' = [ent EXCEPT ![w] = res.entry]
            ELSE UNCHANGED <<pc, ent>>
  /\ UNCHANGED <<pool, lock, disk, files, fk, handle, todo, rd>>

\* transcode's claim loop: the claimed entry's file is gone, Database.Remove
RemoveMissing(w) ==
  /\ handle = "open"
  /\ opens' = 0
  /\ again' = FALSE
  /\ replaced' = FALSE
  /\ pc[w] = "claimed"
  /\ ~PathExists(files, ent[w].path)
  /\ LET res == RemoveTx(Store, ent[w])
     IN /\ SetStore(res.store)
        /\ last' = Op("Remove", ent[w], res.err)
  /\ pc' = [pc EXCEPT ![w] = "idle"]
  /\ ent' = [ent EXCEPT ![w] = ZeroEntry]
  /\ UNCHANGED <<pool, lock, disk, files, fk, handle, todo, rd>>

\* Pool.Stop's drain of a queued entry: cancelTranscoding, Database.CancelTranscoding
CancelTranscoding(w) ==
  /\ handle = "open"
  /\ opens' = 0
  /\ again' = FALSE
  /\ replaced' = FALSE
  /\ pc[w] = "claimed"
  /\ PathExists(files, ent[w].path)
  /\ LET res == CancelTx(Store, ent[w])
     IN /\ SetStore(res.store)
        /\ last' = Op("CancelTranscoding", ent[w], res.err)
  /\ pc' = [pc EXCEPT ![w] = "idle"]
  /\ ent' = [ent EXCEPT ![w] = ZeroEntry]
  /\ UNCHANGED <<pool, lock, disk, files, fk, handle, todo, rd>>

\* transcodeEntry: transcodeFunc starts writing the intermediate artifact
TranscodeStart(w) ==
  /\ handle = "open"
  /\ opens' = 0
  /\ again' = FALSE
  /\ replaced' = FALSE
  /\ pc[w] = "claimed"
  /\ PathExists(files, ent[w].path)
  /\ \E content \in Hashes :
       files' = WriteFile(files, ReplaceExtensionTranscoding(ent[w].path), content)
  /\ pc' = [pc EXCEPT ![w] = "transcoding"]
  /\ last' = Op("transcodeFunc", ZeroEntry, "")
  /\ UNCHANGED <<pool, lock, disk, library, jobs, seq, fk, handle, todo, ent, rd>>

\* transcodeEntry: transcodeFunc returns (nil, or an error that ends the worker)
TranscodeEnd(w) ==
  /\ handle = "open"
  /\ opens' = 0
  /\ again' = FALSE
  /\ replaced' = FALSE
  /\ pc[w] = "transcoding"
  /\ \E err \in {"", "failed to transcode file"} :
       /\ pc' = [pc EXCEPT ![w] = IF err = "" THEN "transcoded" ELSE "failed"]
       /\ last' = Op("transcodeFunc returned", ZeroEntry, err)
  /\ UNCHANGED <<pool, lock, disk, library, jobs, seq, files, fk, handle, todo, ent, rd>>

\* transcodeEntry: os.Remove(entry.Path)
RemoveSource(w) ==
  /\ handle = "open"
  /\ opens' = 0
  /\ again' = FALSE
  /\ replaced' = FALSE
  /\ pc[w] = "transcoded"
  /\ IF PathExists(files, ent[w].path)
       THEN /\ files' = RemoveFile(files, ent[w].path)
            /\ pc' = [pc EXCEPT ![w] = "removed"]
            /\ last' = Op("os.Remove", ZeroEntry, "")
       ELSE /\ pc' = [pc EXCEPT ![w] = "failed"]
            /\ last' = Op("os.Remove", ZeroEntry, "failed to remove source file")
            /\ UNCHANGED files
  /\ UNCHANGED <<pool, lock, disk, library, jobs, seq, fk, handle, todo, ent, rd>>

\* transcodeEntry: os.Rename(intermediate, target)
RenameTranscoded(w) ==
  /\ handle = "open"
  /\ opens' = 0
  /\ again' = FALSE
  /\ replaced' = FALSE
  /\ pc[w] = "removed"
  /\ LET inter == ReplaceExtensionTranscoding(ent[w].path)
         target == ReplaceExtensionTarget(ent[w].path)
     IN IF PathExists(files, inter)
          THEN /\ files' = RenameFile(files, inter, target)
               /\ pc' = [pc EXCEPT ![w] = "renamed"]
               /\ last' = Op("os.Rename", ZeroEntry, "")
          ELSE /\ pc' = [pc EXCEPT ![w] = "failed"]
               /\ last' = Op("os.Rename", ZeroEntry, "failed to rename transcoded file")
               /\ UNCHANGED files
  /\ UNCHANGED <<pool, lock, disk, library, jobs, seq, fk, handle, todo, ent, rd>>

\* transcodeEntry: Database.CompleteTranscoding under the target path
Complete(w) ==
  /\ handle = "open"
  /\ opens' = 0
  /\ again' = FALSE
  /\ replaced' = FALSE
  /\ pc[w] = "renamed"
  /\ LET entry == [ent[w] EXCEPT !.path = ReplaceExtensionTarget(ent[w].path)]
         res == CompleteTranscoding(Store, files, entry)
     IN /\ SetStore(res.store)
        /\ last' = Op("CompleteTranscoding", entry, res.err)
        /\ pc' = [pc EXCEPT ![w] = IF res.err = "" THEN "idle" ELSE "failed"]
        /\ ent' = [ent EXCEPT ![w] = IF res.err = "" THEN ZeroEntry ELSE @]
  /\ UNCHANGED <<pool, lock, disk, files, fk, handle, todo, rd>>

\* Database.Close, once every worker is done
Close ==
  /\ handle = "open"
  /\ \A w \in Workers : pc[w] = "idle"
  /\ handle' = "closed"
  /\ fk' = TRUE
  /\ last' = Op("Close", ZeroEntry, "")
  /\ again' = FALSE
  /\ replaced' = FALSE
  /\ UNCHANGED <<pool, lock, disk, opens, library, jobs, seq, files, todo, pc, ent, rd>>

\* The process dies (power cut, kill, or exit on a worker's error): what is
\* on disk stays, the workers and the handle are gone.
Crash ==
  /\ handle # "closed"
  /\ handle' = "closed"
  /\ todo' = {}
  /\ fk' = TRUE
  /\ pc' = [w \in Workers |-> "idle"]
  /\ ent' = [w \in Workers |-> ZeroEntry]
  /\ last' = Op("Crash", ZeroEntry, "")
  /\ again' = FALSE
  /\ replaced' = FALSE
  /\ UNCHANGED <<pool, lock, disk, opens, library, jobs, seq, files, rd>>

\* Open up to recoverIncompleteJobs' query.  The pragma foreign_keys is set
\* on the one pooled connection open at that point; when the query yields
\* rows, the callback's transactions need a second connection, on which the
\* pragma was never set, and either connection may serve later transactions.
OpenBegin ==
  /\ handle = "closed"
  /\ OpenError(disk) = ""
  /\ handle' = "opening"
  /\ todo' = IncompleteJobs(Store)
  /\ fk' \in (IF IncompleteJobs(Store) = {} THEN {TRUE} ELSE BOOLEAN)
  /\ last' = Op("Open", ZeroEntry, "")
  /\ again' = FALSE
  /\ replaced' = FALSE
  /\ UNCHANGED <<pool, lock, disk, opens, library, jobs, seq, files, pc, ent, rd>>

\* recoverIncompleteJobs' callback on one row of the query
RecoverJob(entry) ==
  /\ handle = "opening"
  /\ entry \in todo
  /\ LET res == RecoverOne(Store, files, entry)
     IN /\ SetStore(res.store)
        /\ files' = res.files
        /\ last' = Op(res.op, entry, res.err)
        /\ IF res.err = ""
             THEN /\ todo' = todo \ {entry}
                  /\ UNCHANGED <<handle, fk>>
             ELSE /\ todo' = {}
                  /\ handle' = "closed"
                  /\ fk' = TRUE
  /\ UNCHANGED <<pool, lock, disk, pc, ent, opens, again, replaced, rd>>

\* Open returns the handle
OpenEnd ==
  /\ handle = "opening"
  /\ todo = {}
  /\ handle' = "open"
  /\ last' = Op("Open returned", ZeroEntry, "")
  /\ opens' = IF opens < MaxOpens THEN opens + 1 ELSE opens
  /\ UNCHANGED <<pool, lock, disk, library, jobs, seq, files, fk, todo, pc, ent, again, replaced, rd>>

\* The update and transcode commands against one store, with crashes.
Next ==
  \/ \E path \in LibraryPaths, discovered \in Times : upsertEntry(path, discovered)
  \/ \E w \in Workers :
       \/ BeginTranscoding(w)
       \/ RemoveMissing(w)
       \/ CancelTranscoding(w)
       \/ TranscodeStart(w)
       \/ TranscodeEnd(w)
       \/ RemoveSource(w)
       \/ RenameTranscoded(w)
       \/ Complete(w)
  \/ Close
  \/ Crash
  \/ OpenBegin
  \/ \E entry \in todo : RecoverJob(entry)
  \/ OpenEnd

Spec == Init /\ [][Next]_vars

\* ------------------------------------------------------------------ the package's API
\* The files beside the store in the package's tests of Open: the source
\* alone, the source with an intermediate artifact, the intermediate alone,
\* or the target alone.
ApiFiles ==
  {[p \in {<<"a", 0, ".avi">>} |-> 1],
   [p \in {<<"a", 0, ".avi">>, <<"a", 1, ".mp4">>} |-> IF p[2] = 0 THEN 1 ELSE 2],
   [p \in {<<"a", 1, ".mp4">>} |-> 2],
   [p \in {<<"a", 0, ".mp4">>} |-> 2]}

\* Paths of the entries the tests store.
ApiPaths == {<<"a", 0, x>> : x \in SupportedExtensions}

\* Entries a caller hands to Upsert (Entry.ID stays zero: Upsert never reads it).
UpsertInputs ==
  {Entry(0, p, d, t, h) : p \in ApiPaths, d \in Times,
                          t \in {Nil, Int64P(Stamp)}, h \in Hashes}

\* Entries a caller hands back to the store: those BeginTranscoding scans.
Claimable == {Scanned(r) : r \in library}

InitApi ==
  /\ library = {}
  /\ jobs = [i \in Ids |-> 0]
  /\ seq = 0
  /\ files \in ApiFiles
  /\ fk = TRUE
  /\ handle = "open"
  /\ todo = {}
  /\ pc = [w \in Workers |-> "idle"]
  /\ ent = [w \in Workers |-> ZeroEntry]
  /\ last = Op("Create", ZeroEntry, "")
  /\ opens = 0
  /\ again = FALSE
  /\ replaced = FALSE
  /\ pool = NoPool
  /\ lock = NoLock
  /\ rd = NoReader
  /\ disk = StoreV1

\* Database.BeginTranscoding
ApiBeginTranscoding ==
  /\ handle = "open"
  /\ opens' = 0
  /\ again' = FALSE
  /\ replaced' = FALSE
  /\ \E res \in BeginTx(Store, fk) :
       /\ SetStore(res.store)
       /\ last' = Op("BeginTranscoding", res.entry, res.err)
  /\ UNCHANGED <<pool, lock, disk, files, fk, handle, todo, pc, ent, rd>>

\* Database.Remove
ApiRemove(entry) ==
  /\ handle = "open"
  /\ opens' = 0
  /\ again' = FALSE
  /\ replaced' = FALSE
  /\ LET res == RemoveTx(Store, entry)
     IN /\ SetStore(res.store)
        /\ last' = Op("Remove", entry, res.err)
  /\ UNCHANGED <<pool, lock, disk, files, fk, handle, todo, pc, ent, rd>>

\* Database.CancelTranscoding
ApiCancelTranscoding(entry) ==
  /\ handle = "open"
  /\ opens' = 0
  /\ again' = FALSE
  /\ replaced' = FALSE
  /\ LET res == CancelTx(Store, entry)
     IN /\ SetStore(res.store)
        /\ last' = Op("CancelTranscoding", entry, res.err)
  /\ UNCHANGED <<pool, lock, disk, files, fk, handle, todo, pc, ent, rd>>

\* Database.CompleteTranscoding
ApiCompleteTranscoding(entry) ==
  /\ handle = "open"
  /\ opens' = 0
  /\ again' = FALSE
  /\ replaced' = FALSE
  /\ LET res == CompleteTranscoding(Store, files, entry)
     IN /\ SetStore(res.store)
        /\ last' = Op("CompleteTranscoding", entry, res.err)
  /\ UNCHANGED <<pool, lock, disk, files, fk, handle, todo, pc, ent, rd>>

\* The public operations of the store in any order.
NextApi ==
  \/ \E entry \in UpsertInputs : Upsert(entry)
  \/ ApiBeginTranscoding
  \/ \E entry \in Claimable : ApiRemove(entry)
  \/ \E entry \in Claimable : ApiCancelTranscoding(entry)
  \/ \E entry \in Claimable :
       ApiCompleteTranscoding([entry EXCEPT !.path = ReplaceExtensionTarget(entry.path)])
  \/ Close
  \/ Crash
  \/ OpenBegin
  \/ \E entry \in todo : RecoverJob(entry)
  \/ OpenEnd

SpecApi == InitApi /\ [][NextApi]_vars

\* ------------------------------------------------------------------ the worker pool
\* A faulty drain, for C21: NewUpdatePool's, which does nothing.
drain_Nothing(s, entry) == Commit(s)

\* NewTranscodePool's drain: cancelTranscoding, Database.CancelTranscoding.
drain(s, entry) == CancelTx(s, entry)

\* A faulty queueEntry, for C24: on ctx done it reports (false, nil) and
\* sends the entry all the same.
queueEntry_SendsOnCancel(p, entry) ==
  {[queued |-> FALSE, err |-> NoErr, queue |-> Append(p.queue, entry), errors |-> p.errors] :
     x \in {1} \cap (IF p.cancelled THEN {1} ELSE {})}
  \cup
  {[queued |-> TRUE, err |-> NoErr, queue |-> Append(p.queue, entry), errors |-> p.errors] :
     x \in {1} \cap (IF Len(p.queue) < p.cap THEN {1} ELSE {})}
  \cup
  {[queued |-> FALSE, err |-> Head(p.errors), queue |-> p.queue, errors |-> Tail(p.errors)] :
     x \in {1} \cap (IF p.errors # << >> THEN {1} ELSE {})}

\* queueEntry's select: the outcomes that are ready.  ctx done gives
\* (false, nil); room in entryStream gives (true, nil) with the entry sent; an
\* error waiting in errorStream gives (false, err) with the error received.
queueEntry(p, entry) ==
  {[queued |-> FALSE, err |-> NoErr, queue |-> p.queue, errors |-> p.errors] :
     x \in {1} \cap (IF p.cancelled THEN {1} ELSE {})}
  \cup
  {[queued |-> TRUE, err |-> NoErr, queue |-> Append(p.queue, entry), errors |-> p.errors] :
     x \in {1} \cap (IF Len(p.queue) < p.cap THEN {1} ELSE {})}
  \cup
  {[queued |-> FALSE, err |-> Head(p.errors), queue |-> p.queue, errors |-> Tail(p.errors)] :
     x \in {1} \cap (IF p.errors # << >> THEN {1} ELSE {})}

\* A faulty Stop, for C23: it does not wait for the workers.
WaitDone_NoWait(p) == TRUE

\* Pool.Stop's p.wg.Wait() returns: every worker's goroutine has returned.
WaitDone(p) == p.started \subseteq p.exited

\* A faulty Stop, for C22: it drains whatever the workers reported.
StopDrains_Always(p) == TRUE

\* Pool.Stop after the wait: with len(p.errorStream) != 0 it returns the
\* first error, otherwise it goes on to drain.
StopDrains(p) == Len(p.errors) = 0

\* A step of the pool that is no store operation.
PoolStep(op, entry, err) ==
  /\ last' = Op(op, entry, err)
  /\ opens' = 0
  /\ again' = FALSE
  /\ replaced' = FALSE

\* The transcode command starts on the open store.
transcode ==
  /\ handle = "open"
  /\ pool.main = "none"
  /\ \A w \in Workers : pc[w] = "idle"
  /\ pool' = NewPool
  /\ PoolStep("transcode", ZeroEntry, "")
  /\ UNCHANGED <<library, jobs, seq, files, fk, handle, todo, pc, ent, lock, disk, rd>>

\* A faulty claim loop, for C36: it removes an entry whose file is gone and
\* keeps it among the claimed entries all the same.
PoolClaim_SubmitsMissing ==
  /\ pool.main = "claiming"
  /\ opens' = 0
  /\ again' = FALSE
  /\ replaced' = FALSE
  /\ IF Len(pool.entries) = MaxEntries
       THEN /\ pool' = [pool EXCEPT !.main = "starting"]
            /\ last' = Op("claimed", ZeroEntry, "")
            /\ UNCHANGED <<library, jobs, seq>>
       ELSE \E res \in BeginTx(Store, fk) :
              IF res.err = ErrQueryReturnedNoRows
                THEN /\ pool' = [pool EXCEPT !.main = "starting"]
                     /\ last' = Op("BeginTranscoding", res.entry, res.err)
                     /\ UNCHANGED <<library, jobs, seq>>
              ELSE IF res.err # ""
                THEN /\ pool' = [pool EXCEPT !.main = "returned"]
                     /\ last' = Op("BeginTranscoding", res.entry, res.err)
                     /\ UNCHANGED <<library, jobs, seq>>
              ELSE IF ~PathExists(files, res.entry.path)
                THEN /\ SetStore(RemoveTx(res.store, res.entry).store)
                     /\ last' = Op("Remove", res.entry, "")
                     /\ pool' = [pool EXCEPT !.removed = @ \cup {res.entry.id},
                                             !.entries = Append(@, res.entry)]
              ELSE /\ SetStore(res.store)
                   /\ last' = Op("BeginTranscoding", res.entry, "")
                   /\ pool' = [pool EXCEPT !.entries = Append(@, res.entry)]
  /\ UNCHANGED <<files, fk, handle, todo, pc, ent, lock, disk, rd>>

\* transcode's claim loop: BeginTranscoding until transcodeOptions.entries
\* entries are claimed or no row is left; an entry whose file is gone is removed.
PoolClaim ==
  /\ pool.main = "claiming"
  /\ opens' = 0
  /\ again' = FALSE
  /\ replaced' = FALSE
  /\ IF Len(pool.entries) = MaxEntries
       THEN /\ pool' = [pool EXCEPT !.main = "starting"]
            /\ last' = Op("claimed", ZeroEntry, "")
            /\ UNCHANGED <<library, jobs, seq>>
       ELSE \E res \in BeginTx(Store, fk) :
              IF res.err = ErrQueryReturnedNoRows
                THEN /\ pool' = [pool EXCEPT !.main = "starting"]
                     /\ last' = Op("BeginTranscoding", res.entry, res.err)
                     /\ UNCHANGED <<library, jobs, seq>>
              ELSE IF res.err # ""
                THEN /\ pool' = [pool EXCEPT !.main = "returned"]
                     /\ last' = Op("BeginTranscoding", res.entry, res.err)
                     /\ UNCHANGED <<library, jobs, seq>>
              ELSE IF ~PathExists(files, res.entry.path)
                THEN /\ SetStore(RemoveTx(res.store, res.entry).store)
                     /\ last' = Op("Remove", res.entry, "")
                     /\ pool' = [pool EXCEPT !.removed = @ \cup {res.entry.id}]
              ELSE /\ SetStore(res.store)
                   /\ last' = Op("BeginTranscoding", res.entry, "")
                   /\ pool' = [pool EXCEPT !.entries = Append(@, res.entry)]
  /\ UNCHANGED <<files, fk, handle, todo, pc, ent, lock, disk, rd>>

\* Pool.Start with transcodeOptions.threads workers
PoolStart ==
  /\ pool.main = "starting"
  /\ \E threads \in Threads :
       pool' = [pool EXCEPT !.main = "queueing", !.started = threads]
  /\ PoolStep("Pool.Start", ZeroEntry, "")
  /\ UNCHANGED <<library, jobs, seq, files, fk, handle, todo, pc, ent, lock, disk, rd>>

\* signalHandler's context is cancelled (the user interrupts the command)
PoolCancel ==
  /\ pool.main \in {"claiming", "starting", "queueing", "stopping", "closed"}
  /\ ~pool.cancelled
  /\ pool' = [pool EXCEPT !.cancelled = TRUE]
  /\ PoolStep("interrupt", ZeroEntry, "")
  /\ UNCHANGED <<library, jobs, seq, files, fk, handle, todo, pc, ent, lock, disk, rd>>

\* transcode's submission loop: queueEntry on the next claimed entry; an
\* error returns from the command, not queued breaks out of the loop.
PoolQueue ==
  /\ pool.main = "queueing"
  /\ pool.entries # << >>
  /\ LET entry == Head(pool.entries)
     IN \E out \in queueEntry(pool, entry) :
          /\ pool' = [pool EXCEPT
               !.queue = out.queue,
               !.errors = out.errors,
               !.entries = Tail(@),
               !.offer = Offer(entry, out.queued, out.err),
               !.accepted = IF out.queued THEN @ \cup {entry.id} ELSE @,
               !.rejected = IF out.queued THEN @ ELSE @ \cup {entry.id},
               !.main = IF out.err # NoErr THEN "returned"
                        ELSE IF ~out.queued THEN "stopping" ELSE @]
          /\ PoolStep("queueEntry", entry, out.err.err)
  /\ UNCHANGED <<library, jobs, seq, files, fk, handle, todo, pc, ent, lock, disk, rd>>

\* Pool.Stop: close(p.entryStream)
PoolStop ==
  /\ \/ pool.main = "queueing" /\ pool.entries = << >>
     \/ pool.main = "stopping"
  /\ pool' = [pool EXCEPT !.main = "closed", !.stop = TRUE,
                          !.atStop = {pool.queue[i].id : i \in 1..Len(pool.queue)}]
  /\ PoolStep("Pool.Stop", ZeroEntry, "")
  /\ UNCHANGED <<library, jobs, seq, files, fk, handle, todo, pc, ent, lock, disk, rd>>

\* A worker's range over entryStream receives the next entry and calls consume.
PoolTake(w) ==
  /\ pool.main \in {"queueing", "stopping", "closed"}
  /\ w \in pool.started \ (pool.busy \cup pool.exited)
  /\ pc[w] = "idle"
  /\ pool.queue # << >>
  /\ LET entry == Head(pool.queue)
     IN /\ pool' = [pool EXCEPT !.queue = Tail(@), !.busy = @ \cup {w},
                                !.consumed[entry.id] = @ + 1,
                                !.after[w] = IF pool.cancelled THEN @ + 1 ELSE @]
        /\ pc' = [pc EXCEPT ![w] = "claimed"]
        /\ ent' = [ent EXCEPT ![w] = entry]
        /\ PoolStep("consume", entry, "")
  /\ UNCHANGED <<library, jobs, seq, files, fk, handle, todo, lock, disk, rd>>

\* A faulty worker, for C34: it sends consume's error and stays in its loop.
PoolFail_KeepsRunning(w) ==
  /\ pool.main # "none"
  /\ w \in pool.busy
  /\ pc[w] = "failed"
  /\ pool' = [pool EXCEPT !.errors = Append(@, Err("failed to transcode entry", ent[w].id)),
                          !.busy = @ \ {w},
                          !.sent[w] = @ + 1]
  /\ pc' = [pc EXCEPT ![w] = "idle"]
  /\ ent' = [ent EXCEPT ![w] = ZeroEntry]
  /\ PoolStep("consume returned", ent[w], "failed to transcode entry")
  /\ UNCHANGED <<library, jobs, seq, files, fk, handle, todo, lock, disk, rd>>

\* consume returned an error: the worker sends it to errorStream and returns.
PoolFail(w) ==
  /\ pool.main # "none"
  /\ w \in pool.busy
  /\ pc[w] = "failed"
  /\ pool' = [pool EXCEPT !.errors = Append(@, Err("failed to transcode entry", ent[w].id)),
                          !.busy = @ \ {w}, !.exited = @ \cup {w},
                          !.sent[w] = @ + 1]
  /\ pc' = [pc EXCEPT ![w] = "idle"]
  /\ ent' = [ent EXCEPT ![w] = ZeroEntry]
  /\ PoolStep("consume returned", ent[w], "failed to transcode entry")
  /\ UNCHANGED <<library, jobs, seq, files, fk, handle, todo, lock, disk, rd>>

\* A faulty worker, for C35: after a consume it does not look at ctx.Err().
PoolNext_IgnoresCancel(w) ==
  /\ pool.main # "none"
  /\ w \in pool.busy
  /\ pc[w] = "idle"
  /\ pool' = [pool EXCEPT !.busy = @ \ {w}]
  /\ PoolStep("consume returned", ZeroEntry, "")
  /\ UNCHANGED <<library, jobs, seq, files, fk, handle, todo, pc, ent, lock, disk, rd>>

\* consume returned nil: the worker returns if ctx.Err() != nil, else loops.
PoolNext(w) ==
  /\ pool.main # "none"
  /\ w \in pool.busy
  /\ pc[w] = "idle"
  /\ pool' = [pool EXCEPT !.busy = @ \ {w},
                          !.exited = IF pool.cancelled THEN @ \cup {w} ELSE @]
  /\ PoolStep("consume returned", ZeroEntry, "")
  /\ UNCHANGED <<library, jobs, seq, files, fk, handle, todo, pc, ent, lock, disk, rd>>

\* The range loop ends: entryStream is closed and empty.
PoolExit(w) ==
  /\ pool.main = "closed"
  /\ w \in pool.started \ (pool.busy \cup pool.exited)
  /\ pool.queue = << >>
  /\ pool' = [pool EXCEPT !.exited = @ \cup {w}]
  /\ PoolStep("worker returned", ZeroEntry, "")
  /\ UNCHANGED <<library, jobs, seq, files, fk, handle, todo, pc, ent, lock, disk, rd>>

\* Pool.Stop: p.wg.Wait() returns, then the check of errorStream.
PoolWait ==
  /\ pool.main = "closed"
  /\ WaitDone(pool)
  /\ IF StopDrains(pool)
       THEN /\ pool' = [pool EXCEPT !.main = "draining"]
            /\ PoolStep("Pool.Stop waited", ZeroEntry, "")
       ELSE /\ pool' = [pool EXCEPT !.main = "stopped", !.result = Head(pool.errors),
                                    !.errors = Tail(@)]
            /\ PoolStep("Pool.Stop returned", ZeroEntry, Head(pool.errors).err)
  /\ UNCHANGED <<library, jobs, seq, files, fk, handle, todo, pc, ent, lock, disk, rd>>

\* Pool.Stop: the range over the closed entryStream, drain on each entry left;
\* the loop's end returns nil, a drain error returns it.
PoolDrain ==
  /\ pool.main = "draining"
  /\ opens' = 0
  /\ again' = FALSE
  /\ replaced' = FALSE
  /\ IF pool.queue = << >>
       THEN /\ pool' = [pool EXCEPT !.main = "stopped", !.result = NoErr]
            /\ last' = Op("Pool.Stop returned", ZeroEntry, "")
            /\ UNCHANGED <<library, jobs, seq>>
       ELSE LET entry == Head(pool.queue)
                res == drain(Store, entry)
            IN /\ SetStore(res.store)
               /\ last' = Op("drain", entry, res.err)
               /\ pool' = [pool EXCEPT
                    !.queue = Tail(@),
                    !.drained[entry.id] = @ + 1,
                    !.main = IF res.err = "" THEN @ ELSE "stopped",
                    !.result = IF res.err = "" THEN @ ELSE Err(res.err, entry.id)]
  /\ UNCHANGED <<files, fk, handle, todo, pc, ent, lock, disk, rd>>

\* One run of the transcode command on a library that update has filled.
NextPool ==
  \/ /\ pool.main = "none"
     /\ \E path \in LibraryPaths, discovered \in Times : upsertEntry(path, discovered)
  \/ transcode
  \/ PoolClaim
  \/ PoolStart
  \/ PoolCancel
  \/ PoolQueue
  \/ PoolStop
  \/ \E w \in Workers :
       \/ PoolTake(w)
       \/ TranscodeStart(w)
       \/ TranscodeEnd(w)
       \/ RemoveSource(w)
       \/ RenameTranscoded(w)
       \/ Complete(w)
       \/ PoolFail(w)
       \/ PoolNext(w)
       \/ PoolExit(w)
  \/ PoolWait
  \/ PoolDrain

SpecPool == Init /\ [][NextPool]_vars

\* ------------------------------------------------------------------ the claim loop
\* A media file leaves the library directory after update has recorded it
\* and before transcode runs.
FileLost(path) ==
  /\ pool.main = "none"
  /\ \E r \in library : r.path = path
  /\ PathExists(files, path)
  /\ files' = RemoveFile(files, path)
  /\ PoolStep("file lost", ZeroEntry, "")
  /\ UNCHANGED <<library, jobs, seq, fk, handle, todo, pc, ent, pool, lock, disk, rd>>

\* One run of the transcode command on a library some of whose files are gone.
NextClaim ==
  \/ NextPool
  \/ \E path \in LibraryPaths : FileLost(path)

SpecClaim == Init /\ [][NextClaim]_vars

\* ------------------------------------------------------------------ the full queue
\* entryStream's capacity brought down to the number of entries a run
\* claims, so that the queue fills.
ScaledCap == 1

\* The transcode command starts on the open store; its pool's queue has the
\* scaled capacity.
transcodeFull ==
  /\ handle = "open"
  /\ pool.main = "none"
  /\ \A w \in Workers : pc[w] = "idle"
  /\ pool' = [NewPool EXCEPT !.cap = ScaledCap]
  /\ PoolStep("transcode", ZeroEntry, "")
  /\ UNCHANGED <<library, jobs, seq, files, fk, handle, todo, pc, ent, lock, disk, rd>>

\* One run of the transcode command with more entries than the queue holds.
NextFull ==
  \/ /\ pool.main = "none"
     /\ \E path \in LibraryPaths, discovered \in Times : upsertEntry(path, discovered)
  \/ transcodeFull
  \/ PoolClaim
  \/ PoolStart
  \/ PoolCancel
  \/ PoolQueue
  \/ PoolStop
  \/ \E w \in Workers :
       \/ PoolTake(w)
       \/ TranscodeStart(w)
       \/ TranscodeEnd(w)
       \/ RemoveSource(w)
       \/ RenameTranscoded(w)
       \/ Complete(w)
       \/ PoolFail(w)
       \/ PoolNext(w)
       \/ PoolExit(w)
  \/ PoolWait
  \/ PoolDrain

SpecFull == Init /\ [][NextFull]_vars

\* ------------------------------------------------------------------ the convert command
\* Paths per list of the overlay convert reads.
MaxPaths == 2

\* The paths an overlay names: the library's files and one that is gone.
ConvertPaths == {<<"a", 0, ".avi">>, <<"b", 0, ".mp4">>, <<"b", 0, ".avi">>}

\* The lists of an overlay: up to MaxPaths different paths in any order.
OverlayLists ==
  {l \in UNION {[1..n -> ConvertPaths] : n \in 0..MaxPaths} :
     \A i, j \in 1..Len(l) : i # j => l[i] # l[j]}

\* queueEntries builds an entry per path: discovered is time.Now().Unix(),
\* transcoded the same time when populateTranscoded and nil otherwise.
ConvertEntries(paths, populateTranscoded) ==
  [i \in 1..Len(paths) |->
     Entry(0, paths[i], Stamp, IF populateTranscoded THEN Int64P(Stamp) ELSE Nil, 0)]

\* convert decodes the overlay, creates the sink store and starts an update
\* pool; the untranscoded list is to be queued before the transcoded list.
convert ==
  /\ handle = "open"
  /\ pool.main = "none"
  /\ library = {}
  /\ \E untranscoded \in OverlayLists, transcoded \in OverlayLists :
       pool' = [NewPool EXCEPT
         !.main = "starting",
         !.entries = ConvertEntries(untranscoded, FALSE) \o ConvertEntries(transcoded, TRUE),
         !.overlay = [untranscoded |-> {untranscoded[i] : i \in 1..Len(untranscoded)},
                      transcoded |-> {transcoded[i] : i \in 1..Len(transcoded)}]]
  /\ PoolStep("convert", ZeroEntry, "")
  /\ UNCHANGED <<library, jobs, seq, files, fk, handle, todo, pc, ent, lock, disk, rd>>

\* The entries left to offer once queueEntry returned (false, nil) for
\* entry: queueEntries returns nil, so after the untranscoded list convert
\* still calls queueEntries on the transcoded list, and Stop after that.
AfterNotQueued(entries, entry) ==
  IF entry.transcoded = Nil
    THEN SelectSeq(Tail(entries), LAMBDA e : e.transcoded # Nil)
  ELSE << >>

\* queueEntries' loop: queueEntry on the next path's entry; an error returns
\* from the command, not queued returns from queueEntries.
ConvertQueue ==
  /\ pool.main = "queueing"
  /\ pool.entries # << >>
  /\ LET entry == Head(pool.entries)
     IN \E out \in queueEntry(pool, entry) :
          /\ pool' = [pool EXCEPT
               !.queue = out.queue,
               !.errors = out.errors,
               !.entries = IF out.queued THEN Tail(@) ELSE AfterNotQueued(@, entry),
               !.offer = Offer(entry, out.queued, out.err),
               !.main = IF out.err # NoErr THEN "returned" ELSE @]
          /\ PoolStep("queueEntry", entry, out.err.err)
  /\ UNCHANGED <<library, jobs, seq, files, fk, handle, todo, pc, ent, lock, disk, rd>>

\* A worker's range over entryStream receives the next entry and calls
\* consume, upsertEntry.
ConvertTake(w) ==
  /\ pool.main \in {"queueing", "closed"}
  /\ w \in pool.started \ (pool.busy \cup pool.exited)
  /\ pc[w] = "idle"
  /\ pool.queue # << >>
  /\ pool' = [pool EXCEPT !.queue = Tail(@), !.busy = @ \cup {w},
                          !.after[w] = IF pool.cancelled THEN @ + 1 ELSE @]
  /\ pc' = [pc EXCEPT ![w] = "claimed"]
  /\ ent' = [ent EXCEPT ![w] = Head(pool.queue)]
  /\ PoolStep("consume", Head(pool.queue), "")
  /\ UNCHANGED <<library, jobs, seq, files, fk, handle, todo, lock, disk, rd>>

\* upsertEntry in a worker: HashFile on the entry's path, then Database.Upsert.
ConvertUpsert(w) ==
  /\ handle = "open"
  /\ pool.main # "none"
  /\ w \in pool.busy
  /\ pc[w] = "claimed"
  /\ opens' = 0
  /\ again' = FALSE
  /\ replaced' = FALSE
  /\ LET h == HashFile(files, ent[w].path)
         entry == [ent[w] EXCEPT !.hash = h.hash]
         res == IF h.err # "" THEN Rollback(h.err, Store) ELSE UpsertTx(Store, fk, entry)
     IN /\ SetStore(res.store)
        /\ last' = Op("upsertEntry", entry, res.err)
        /\ pc' = [pc EXCEPT ![w] = IF res.err = "" THEN "idle" ELSE "failed"]
        /\ ent' = [ent EXCEPT ![w] = IF res.err = "" THEN ZeroEntry ELSE @]
  /\ UNCHANGED <<pool, lock, disk, files, fk, handle, todo, rd>>

\* Pool.Stop of an update pool after the wait: its drain does nothing with
\* the entries left, and the loop's end returns nil.
ConvertDrain ==
  /\ pool.main = "draining"
  /\ IF pool.queue = << >>
       THEN /\ pool' = [pool EXCEPT !.main = "stopped", !.result = NoErr]
            /\ PoolStep("Pool.Stop returned", ZeroEntry, "")
       ELSE /\ pool' = [pool EXCEPT !.queue = Tail(@)]
            /\ PoolStep("drain", Head(pool.queue), "")
  /\ UNCHANGED <<library, jobs, seq, files, fk, handle, todo, pc, ent, lock, disk, rd>>

\* One run of the convert command on an empty sink store.
NextConvert ==
  \/ convert
  \/ PoolStart
  \/ PoolCancel
  \/ ConvertQueue
  \/ PoolStop
  \/ \E w \in Workers :
       \/ ConvertTake(w)
       \/ ConvertUpsert(w)
       \/ PoolFail(w)
       \/ PoolNext(w)
       \/ PoolExit(w)
  \/ PoolWait
  \/ ConvertDrain

SpecConvert == Init /\ [][NextConvert]_vars

\* ------------------------------------------------------------------ the store lock
\* A faulty mutex, for C26: Lock never blocks.
LockFree_Always(l) == TRUE

\* d.lock.Lock() in wrapTransaction returns only while no caller holds d.lock.
LockFree(l) == l.held = {}

\* A faulty CompleteTranscoding, for C27: it fingerprints the file inside
\* the transaction, so it takes the lock while the hash is still to be done.
CompleteLockStage_BeforeHash == "renamed"

\* Where CompleteTranscoding calls wrapTransaction: after utils.HashFile.
CompleteLockStage == "hashed"

\* A file system holding only what HashFile read before the transaction.
Hashed(path, hash) == [p \in {path} |-> hash]

\* The callback of each store operation, run on the store s its transaction
\* sees: the error and entry the operation returns and the store it commits.
ApplyTx(op, s, fkOn, entry, hash) ==
  IF op = "BeginTranscoding" THEN BeginTx(s, fkOn)
  ELSE LET res == IF op = "Upsert" THEN UpsertTx(s, fkOn, entry)
                  ELSE IF op = "Remove" THEN RemoveTx(s, entry)
                  ELSE IF op = "CancelTranscoding" THEN CancelTx(s, entry)
                  ELSE CompleteTranscoding(s, Hashed(entry.path, hash), entry)
       IN {[err |-> res.err, store |-> res.store, entry |-> entry]}

\* The calls a worker can make from where it is: Upsert of a file it
\* fingerprinted or BeginTranscoding when idle, CancelTranscoding or Remove of
\* the entry it claimed, CompleteTranscoding once the transform is through.
Calls(w) ==
  IF pc[w] = "idle"
    THEN {Op("BeginTranscoding", ZeroEntry, "")}
         \cup {Op("Upsert", Entry(0, path, discovered, Nil, files[path]), "") :
                 path \in LibraryPaths \cap DOMAIN files, discovered \in Times}
  ELSE IF pc[w] = "claimed"
    THEN {Op("CancelTranscoding", ent[w], ""), Op("Remove", ent[w], "")}
  ELSE IF pc[w] = CompleteLockStage
    THEN {Op("CompleteTranscoding",
             [ent[w] EXCEPT !.path = ReplaceExtensionTarget(ent[w].path)], "")}
  ELSE {}

\* wrapTransaction: d.lock.Lock() and beginLOCKED; the transaction sees the
\* store as it is now.
LockEnter(w) ==
  /\ handle = "open"
  /\ w \notin lock.held
  /\ LockFree(lock)
  /\ \E call \in Calls(w) :
       /\ call.op = "Upsert" /\ UpsertInserts(Store, call.entry) => seq < MaxId
       /\ lock' = [lock EXCEPT !.held = @ \cup {w}, !.snap[w] = Store, !.call[w] = call]
       /\ pc' = [pc EXCEPT ![w] = IF call.op = "CompleteTranscoding" THEN @ ELSE "tx"]
       /\ last' = Op("wrapTransaction", call.entry, "")
  /\ opens' = 0
  /\ again' = FALSE
  /\ replaced' = FALSE
  /\ UNCHANGED <<library, jobs, seq, files, fk, handle, todo, ent, pool, disk, rd>>

\* CompleteTranscoding: utils.HashFile(entry.Path)
LockHash(w) ==
  /\ handle = "open"
  /\ pc[w] = "renamed"
  /\ LET h == HashFile(files, ReplaceExtensionTarget(ent[w].path))
     IN /\ pc' = [pc EXCEPT ![w] = IF h.err = "" THEN "hashed" ELSE "failed"]
        /\ lock' = [lock EXCEPT !.hash[w] = h.hash,
                                !.held = IF h.err = "" THEN @ ELSE @ \ {w}]
        /\ last' = Op("HashFile", ZeroEntry, IF h.err = "" THEN "" ELSE "failed to hash file")
  /\ opens' = 0
  /\ again' = FALSE
  /\ replaced' = FALSE
  /\ UNCHANGED <<library, jobs, seq, files, fk, handle, todo, ent, pool, disk, rd>>

\* wrapTransaction: the callback, commitLOCKED or rollbackLOCKED, and the
\* deferred d.lock.Unlock(); the operation returns.
LockCommit(w) ==
  /\ handle = "open"
  /\ w \in lock.held
  /\ pc[w] \in {"tx", "hashed"}
  /\ LET call == lock.call[w]
     IN \E res \in ApplyTx(call.op, lock.snap[w], fk, call.entry, lock.hash[w]) :
          /\ SetStore(res.store)
          /\ last' = Op(call.op, res.entry, res.err)
          /\ pc' = [pc EXCEPT ![w] =
               IF call.op = "BeginTranscoding" /\ res.err = "" THEN "claimed"
               ELSE IF call.op = "CompleteTranscoding" /\ res.err # "" THEN "failed"
               ELSE "idle"]
          /\ ent' = [ent EXCEPT ![w] =
               IF call.op = "BeginTranscoding" /\ res.err = "" THEN res.entry
               ELSE IF call.op = "CompleteTranscoding" /\ res.err # "" THEN @
               ELSE IF call.op = "Upsert" \/ call.op = "BeginTranscoding" THEN @
               ELSE ZeroEntry]
  /\ lock' = [lock EXCEPT !.held = @ \ {w}, !.snap[w] = FreeLock.snap[w],
                          !.call[w] = FreeLock.call[w], !.hash[w] = 0]
  /\ opens' = 0
  /\ again' = FALSE
  /\ replaced' = FALSE
  /\ UNCHANGED <<files, fk, handle, todo, pool, disk, rd>>

\* Create on a library directory, the handle shared by concurrent callers.
InitLock ==
  /\ library = {}
  /\ jobs = [i \in Ids |-> 0]
  /\ seq = 0
  /\ files \in InitialFiles
  /\ fk = TRUE
  /\ handle = "open"
  /\ todo = {}
  /\ pc = [w \in Workers |-> "idle"]
  /\ ent = [w \in Workers |-> ZeroEntry]
  /\ last = Op("Create", ZeroEntry, "")
  /\ opens = 0
  /\ again = FALSE
  /\ replaced = FALSE
  /\ pool = NoPool
  /\ lock = FreeLock
  /\ rd = NoReader
  /\ disk = StoreV1

\* Callers sharing one handle, each operation a transaction of its own.
NextLock ==
  \E w \in Workers :
    \/ LockEnter(w)
    \/ LockCommit(w)
    \/ TranscodeStart(w)
    \/ TranscodeEnd(w)
    \/ RemoveSource(w)
    \/ RenameTranscoded(w)
    \/ LockHash(w)

SpecLock == InitLock /\ [][NextLock]_vars

\* ------------------------------------------------------------------ the handle
\* What a test or another program may have left at the store's location: a
\* store with no row, or one with a pending row, claimed or not.
SampleStores ==
  {EmptyStore} \cup
  {[library |-> {Entry(1, <<"a", 0, ".avi">>, 1, Nil, 1)},
    jobs |-> [i \in Ids |-> IF i = 1 THEN j ELSE 0], seq |-> 1] : j \in {0, 1}}

\* Nothing at the location, or a store of any version.
InitHandle ==
  /\ disk \in {Disk(FALSE, 0)} \cup {Disk(TRUE, v) : v \in 0..MaxVersion}
  /\ \E s \in (IF disk.exists THEN SampleStores ELSE {EmptyStore}) :
       /\ library = s.library
       /\ jobs = s.jobs
       /\ seq = s.seq
  /\ files \in ApiFiles
  /\ fk = TRUE
  /\ handle = "closed"
  /\ todo = {}
  /\ pc = [w \in Workers |-> "idle"]
  /\ ent = [w \in Workers |-> ZeroEntry]
  /\ last = Op("", ZeroEntry, "")
  /\ opens = 0
  /\ again = FALSE
  /\ replaced = FALSE
  /\ pool = NoPool
  /\ lock = NoLock
  /\ rd = NoReader

\* Create: ErrAlreadyExists if the path exists, else a new, empty store of
\* the current version and its handle.
Create ==
  /\ handle = "closed"
  /\ IF disk.exists
       THEN /\ last' = Op("Create", ZeroEntry, "ErrAlreadyExists")
            /\ UNCHANGED <<library, jobs, seq, fk, handle, disk>>
       ELSE /\ last' = Op("Create", ZeroEntry, "")
            /\ SetStore(EmptyStore)
            /\ fk' = TRUE
            /\ handle' = "open"
            /\ disk' = StoreV1
  /\ opens' = 0
  /\ again' = FALSE
  /\ replaced' = FALSE
  /\ UNCHANGED <<files, todo, pc, ent, pool, lock, rd>>

\* Open returns ErrNotFound or ErrUnknownVersion, ahead of recoverIncompleteJobs.
OpenFails ==
  /\ handle = "closed"
  /\ OpenError(disk) # ""
  /\ last' = Op("Open", ZeroEntry, OpenError(disk))
  /\ opens' = 0
  /\ again' = FALSE
  /\ replaced' = FALSE
  /\ UNCHANGED <<library, jobs, seq, files, fk, handle, todo, pc, ent, pool, lock, disk, rd>>

\* The operations of a handle.
HandleOps ==
  {"Upsert", "Remove", "BeginTranscoding", "CompleteTranscoding", "CancelTranscoding", "Close"}

\* A nil pointer dereference: a run-time panic.
NilDereference == "panic: nil pointer dereference"

\* A faulty Close, for C28: it leaves d.db in place and usable, so that a
\* later operation runs its transaction.
closedCall_Runs(op, s, fs, fkOn, entry) ==
  IF op = "Close" THEN Commit(s)
  ELSE LET res == CHOOSE r \in ApplyTx(op, s, fkOn, entry, HashFile(fs, entry.path).hash) : TRUE
       IN [err |-> res.err, store |-> res.store]

\* An operation on a handle after Close, which set d.db = nil:
\* CompleteTranscoding first hashes the file and returns that error, if any;
\* otherwise the operation reaches d.db.Begin() in beginLOCKED, or
\* d.db.Close() in Close, on the nil *sql.DB, which panics.
closedCall(op, s, fs, fkOn, entry) ==
  IF op = "CompleteTranscoding" /\ HashFile(fs, entry.path).err # ""
    THEN Rollback("failed to hash file", s)
  ELSE Rollback(NilDereference, s)

\* The arguments a caller may pass to an operation.
Arguments(op) ==
  IF op = "Upsert" THEN UpsertInputs
  ELSE IF op \in {"Remove", "CancelTranscoding"} THEN Claimable
  ELSE IF op = "CompleteTranscoding"
    THEN {[e EXCEPT !.path = ReplaceExtensionTarget(e.path)] : e \in Claimable}
  ELSE {ZeroEntry}

\* The program still holds a handle that Close was called on.
AfterClose ==
  /\ handle = "closed"
  /\ last.op \in HandleOps

\* An operation invoked on the closed handle
ClosedCall(op, entry) ==
  /\ AfterClose
  /\ LET res == closedCall(op, Store, files, fk, entry)
     IN /\ SetStore(res.store)
        /\ last' = Op(op, entry, res.err)
  /\ opens' = 0
  /\ again' = FALSE
  /\ replaced' = FALSE
  /\ UNCHANGED <<files, fk, handle, todo, pc, ent, pool, lock, disk, rd>>

\* Create or Open at a location, the handle's operations, and Close.
NextHandle ==
  \/ Create
  \/ OpenFails
  \/ OpenBegin
  \/ \E entry \in todo : RecoverJob(entry)
  \/ OpenEnd
  \/ \E entry \in UpsertInputs : Upsert(entry)
  \/ ApiBeginTranscoding
  \/ \E entry \in Claimable : ApiRemove(entry)
  \/ \E entry \in Claimable : ApiCancelTranscoding(entry)
  \/ \E entry \in Claimable :
       ApiCompleteTranscoding([entry EXCEPT !.path = ReplaceExtensionTarget(entry.path)])
  \/ Close
  \/ \E op \in HandleOps : \E entry \in Arguments(op) : ClosedCall(op, entry)

SpecHandle == InitHandle /\ [][NextHandle]_vars

\* ------------------------------------------------------------------ failing transactions
\* The error a statement of a transaction reports when the disk fails it.
IOError == "disk I/O error"

\* A faulty wrapTransaction, for C31: on an error it keeps what the callback
\* wrote before it failed.
wrapTransaction_KeepsWrites(s, t, err) ==
  IF err = "" THEN Commit(t) ELSE Rollback(err, t)

\* wrapTransaction: s is the store at begin, t the store the callback reached
\* and err what it returned; the transaction commits when the callback
\* returned nil and rolls back otherwise.
wrapTransaction(s, t, err) ==
  IF err = "" THEN Commit(t) ELSE Rollback(err, s)

\* The stores a callback can have reached when one of its statements fails:
\* those after the statements before it.  Remove deletes the job and then the
\* row, CompleteTranscoding updates the row and then deletes the job; in the
\* others the first statement that writes is the last.
Partial(op, s, fs, entry) ==
  CASE op = "Remove" -> {s, removeJob(s, entry.id)}
    [] op = "CompleteTranscoding" ->
         LET done == CompleteTranscoding(s, fs, entry)
         IN IF done.err = "" THEN {s, [done.store EXCEPT !.jobs = s.jobs]} ELSE {s}
    [] OTHER -> {s}

\* The operations that run in one transaction.
Transactions ==
  {"Upsert", "Remove", "BeginTranscoding", "CompleteTranscoding", "CancelTranscoding"}

\* The entries a caller hands to an operation.
FaultArguments(op) ==
  CASE op = "Upsert" -> UpsertInputs
    [] op = "BeginTranscoding" -> {ZeroEntry}
    [] op = "CompleteTranscoding" ->
         {[e EXCEPT !.path = ReplaceExtensionTarget(e.path)] : e \in Claimable}
    [] OTHER -> Claimable

\* An operation one of whose statements fails on the disk.
Fault(op, entry) ==
  /\ handle = "open"
  /\ opens' = 0
  /\ again' = FALSE
  /\ replaced' = FALSE
  /\ op = "CompleteTranscoding" => HashFile(files, entry.path).err = ""
  /\ \E t \in Partial(op, Store, files, entry) :
       LET res == wrapTransaction(Store, t, IOError)
       IN /\ SetStore(res.store)
          /\ last' = Op(op, entry, res.err)
  /\ UNCHANGED <<pool, lock, disk, files, fk, handle, todo, pc, ent, rd>>

\* The public operations of the store in any order, on a disk that may fail.
NextFault ==
  \/ NextApi
  \/ \E op \in Transactions : \E entry \in FaultArguments(op) : Fault(op, entry)

SpecFault == InitApi /\ [][NextFault]_vars

\* ------------------------------------------------------------------ fingerprints
\* BufferSize and MaxSeekSize brought down to the sizes of the files below,
\* so that a seek can land inside a file as well as past its end.
BufferSize == 2
MaxSeekSize == 4

\* Bytes per file.
MaxFileSize == 4

\* The bytes of the files: 'x' and 'y'.
Bytes == {120, 121}

\* The contents of the files that are fingerprinted.
Contents == UNION {[1..n -> Bytes] : n \in 0..MaxFileSize}

\* A uint32 as its two 16-bit halves.
Word(hi, lo) == [hi |-> hi, lo |-> lo]
Zero == Word(0, 0)
Ones == Word(65535, 65535)

\* Bitwise exclusive or of two naturals.
RECURSIVE Xor(_, _)
Xor(a, b) ==
  IF a = 0 THEN b
  ELSE IF b = 0 THEN a
  ELSE ((a + b) % 2) + 2 * Xor(a \div 2, b \div 2)

XorWord(a, b) == Word(Xor(a.hi, b.hi), Xor(a.lo, b.lo))

\* a >> n for n up to 16
ShiftRight(a, n) ==
  Word(a.hi \div (2^n), (a.lo \div (2^n)) + (a.hi % (2^n)) * (2^(16 - n)))

\* uint32 % m for m up to 2^15
Mod(a, m) == ((a.hi % m) * (65536 % m) + a.lo) % m

\* crc32.IEEE, the reversed polynomial 0xedb88320
IEEE == Word(60856, 33568)

\* crc32.MakeTable(crc32.IEEE): entry i is i taken through eight steps of
\* shift right, with the polynomial folded in when the low bit is set.
RECURSIVE TableEntry(_, _)
TableEntry(c, k) ==
  IF k = 0 THEN c
  ELSE TableEntry(IF c.lo % 2 = 1 THEN XorWord(IEEE, ShiftRight(c, 1))
                  ELSE ShiftRight(c, 1),
                  k - 1)

table == [i \in 0..255 |-> TableEntry(Word(0, i), 8)]

\* crc32's update of the inverted digest with the bytes p[i..]
RECURSIVE simpleUpdate(_, _, _)
simpleUpdate(c, p, i) ==
  IF i > Len(p) THEN c
  ELSE simpleUpdate(XorWord(table[Xor(c.lo % 256, p[i])], ShiftRight(c, 8)), p, i + 1)

\* crc32.Update(crc, table, p)
Update(crc, p) == XorWord(simpleUpdate(XorWord(crc, Ones), p, 1), Ones)

\* reader.Read(buffer[:]) at offset pos with no error: up to BufferSize
\* bytes, none at or past the end of the file.
Read(data, pos) ==
  SubSeq(data, pos + 1, IF pos + BufferSize < Len(data) THEN pos + BufferSize ELSE Len(data))

\* A faulty seek, for C32: it stays where the read left the offset.
SeekOffset_None(digest) == 0

\* The offset hashReader seeks forward by: digest % MaxSeekSize.
SeekOffset(digest) == Mod(digest, MaxSeekSize)

\* hashReader on a reader that never fails: read a block, fold it into the
\* digest, seek forward, until a read returns no bytes.
RECURSIVE hashReader(_, _, _)
hashReader(data, pos, digest) ==
  LET block == Read(data, pos)
      next == Update(digest, block)
  IN IF block = << >> THEN digest
     ELSE hashReader(data, pos + Len(block) + SeekOffset(next), next)

\* What HashFile returns.
Hash(err, hash) == [err |-> err, hash |-> hash]

\* The reader of a file HashFile has opened.
NewReader(data) ==
  [at |-> "read",       \* where hashReader is: "read", "seek" or "done"
   data |-> data,       \* the file's bytes
   pos |-> 0,           \* the file offset
   digest |-> Zero,     \* the running digest
   reads |-> 0,         \* reads that returned bytes
   failed |-> FALSE,    \* a read failed with an error other than io.EOF
   out |-> Hash("", Zero)]

\* What reader.Read returns besides a block and nil: io.EOF with no bytes at
\* the end of the file, or at any offset the error of a failing read, with
\* no bytes (as os.File reports it) or with some.
EOF == "EOF"
ReadFailed == "input/output error"
ReadResults(data, pos) ==
  LET block == Read(data, pos)
  IN {[block |-> block, err |-> IF block = << >> THEN EOF ELSE ""],
      [block |-> << >>, err |-> ReadFailed],
      [block |-> block, err |-> ReadFailed]}

\* HashFile: os.Open, which fails on a file that cannot be opened.
HashOpen ==
  /\ rd.at = "none"
  /\ \E data \in Contents, opened \in BOOLEAN :
       rd' = IF opened THEN NewReader(data)
             ELSE [NewReader(data) EXCEPT !.at = "done",
                                          !.out = Hash("failed to open hash file", Zero)]
  /\ PoolStep("HashFile", ZeroEntry, "")
  /\ UNCHANGED <<library, jobs, seq, files, fk, handle, todo, pc, ent, pool, lock, disk>>

\* hashReader: reader.Read and the check of its error, then crc32.Update
HashRead ==
  /\ rd.at = "read"
  /\ \E r \in ReadResults(rd.data, rd.pos) :
       /\ rd' = IF r.err # ""
                  THEN IF Len(r.block) = 0
                         THEN [rd EXCEPT !.at = "done", !.out = Hash("", rd.digest),
                                         !.failed = (r.err # EOF)]
                       ELSE [rd EXCEPT !.at = "done", !.pos = @ + Len(r.block),
                                       !.out = Hash("failed to read from hash file", Zero),
                                       !.failed = (r.err # EOF)]
                ELSE [rd EXCEPT !.at = "seek", !.pos = @ + Len(r.block),
                                !.digest = Update(@, r.block), !.reads = @ + 1]
       /\ PoolStep("reader.Read", ZeroEntry, r.err)
  /\ UNCHANGED <<library, jobs, seq, files, fk, handle, todo, pc, ent, pool, lock, disk>>

\* hashReader: reader.Seek(digest % MaxSeekSize, io.SeekCurrent)
HashSeek ==
  /\ rd.at = "seek"
  /\ \E err \in {"", "illegal seek"} :
       /\ rd' = IF err # ""
                  THEN [rd EXCEPT !.at = "done",
                                  !.out = Hash("failed to seek to next offset", Zero)]
                ELSE [rd EXCEPT !.at = "read", !.pos = @ + SeekOffset(rd.digest)]
       /\ PoolStep("reader.Seek", ZeroEntry, err)
  /\ UNCHANGED <<library, jobs, seq, files, fk, handle, todo, pc, ent, pool, lock, disk>>

\* HashFile returns, its deferred file.Close done.
HashReturn ==
  /\ rd.at = "done"
  /\ rd' = NoReader
  /\ PoolStep("HashFile returned", ZeroEntry, rd.out.err)
  /\ UNCHANGED <<library, jobs, seq, files, fk, handle, todo, pc, ent, pool, lock, disk>>

\* HashFile on one file after another.
NextHash ==
  \/ HashOpen
  \/ HashRead
  \/ HashSeek
  \/ HashReturn

SpecHash == Init /\ [][NextHash]_vars

\* ------------------------------------------------------------------ claims
\* A worker that holds an entry BeginTranscoding returned to it.
Holding(w) == pc[w] # "idle"

\* C1: concurrent BeginTranscoding calls never return the same entry twice.
\* While the job a call created for an entry is open (the worker that got
\* the entry has not completed, cancelled or removed it) no other worker
\* holds that entry, every held entry is backed by a job, and a call returns
\* either an entry that only the caller holds or ErrQueryReturnedNoRows.
C1_Exclusive ==
  /\ \A w1, w2 \in Workers :
       (w1 # w2 /\ Holding(w1) /\ Holding(w2)) => ent[w1].id # ent[w2].id
  /\ \A w \in Workers : Holding(w) => HasJob(Store, ent[w].id)
  /\ last.op = "BeginTranscoding" =>
       \/ last.err = ErrQueryReturnedNoRows
       \/ /\ last.err = ""
          /\ Cardinality({w \in Workers : Holding(w) /\ ent[w].id = last.entry.id}) = 1

\* A second worker has just been handed an entry while the first holds one.
C1_Witness ==
  /\ \A w \in Workers : Holding(w)
  /\ last.op = "BeginTranscoding"
  /\ last.err = ""

\* C2 (as claimed): the jobs table holds at most one job per entry and every
\* job references an entry that exists in the library.
C2_Claim ==
  \A i \in Ids :
    /\ jobs[i] <= 1
    /\ jobs[i] > 0 => \E r \in library : r.id = i

\* C3 (as claimed): after the Open that follows an interrupted transform the
\* entry is never left pending, without a job, under a path that no longer
\* exists while its finished transcoded file is on disk.
C3_Claim ==
  last.op = "Open returned" =>
    \A r \in library :
      ~(/\ r.transcoded = Nil
        /\ ~HasJob(Store, r.id)
        /\ ~PathExists(files, r.path)
        /\ PathExists(files, ReplaceExtensionTarget(r.path)))

\* C4 (as claimed): whenever a successful Open has just returned, the jobs
\* table is empty.
C4_Claim ==
  last.op = "Open returned" => \A i \in Ids : jobs[i] = 0

\* C5: recovery treats a job as completed-but-not-finalized exactly when the
\* rehash of the stored path succeeds with a fingerprint other than the
\* stored one, or the stored path is missing while its intermediate artifact
\* exists; in every other case it treats the job as incomplete.
C5_Classification ==
  [][\A e \in todo :
       RecoverJob(e) =>
         LET inter == <<e.path[1], e.path[2] + 1, ".mp4">>
             differs == e.path \in DOMAIN files /\ files[e.path] # e.hash
             halfway == e.path \notin DOMAIN files /\ inter \in DOMAIN files
         IN /\ last'.op \in {"completeIncompleteJob", "rollbackIncompleteJob"}
            /\ last'.op = "completeIncompleteJob" <=> (differs \/ halfway)]_vars

\* A job whose stored path is gone, with no intermediate artifact, was
\* treated as incomplete.
C5_Witness ==
  /\ last.op = "rollbackIncompleteJob"
  /\ last.entry.path \notin DOMAIN files

\* C6: a job recovery classifies as completed and finalizes without error is
\* finalized as CompleteTranscoding would: the intermediate artifact, where
\* present, is renamed to the target name; the entry's path is the target
\* path, its fingerprint that of the file there, its completion timestamp
\* set, its discovery time unchanged; the job is removed; nothing else changes.
C6_Finalized ==
  [][\A e \in todo :
       (RecoverJob(e) /\ last'.op = "completeIncompleteJob" /\ last'.err = "") =>
         LET inter == <<e.path[1], e.path[2] + 1, ".mp4">>
             target == <<e.path[1], e.path[2], ".mp4">>
         IN /\ IF inter \in DOMAIN files
                 THEN /\ DOMAIN files' = ((DOMAIN files) \ {inter}) \cup {target}
                      /\ files'[target] = files[inter]
                      /\ \A p \in (DOMAIN files') \ {target} : files'[p] = files[p]
                 ELSE files' = files
            /\ \E r \in library' :
                 /\ r.id = e.id
                 /\ r.path = target
                 /\ r.hash = files'[target]
                 /\ r.transcoded # Nil
                 /\ r.discovered = e.discovered
                 /\ library' = (library \ {e}) \cup {r}
            /\ jobs' = [jobs EXCEPT ![e.id] = 0]
            /\ <<library', jobs', seq'>> =
                 LET done == CompleteTranscoding(Store, files', [e EXCEPT !.path = target])
                 IN <<done.store.library, done.store.jobs, done.store.seq>>]_vars

\* Recovery finalized an entry whose source had another extension.
C6_Witness ==
  /\ last.op = "completeIncompleteJob"
  /\ last.err = ""
  /\ \E r \in library :
       /\ r.id = last.entry.id
       /\ r.transcoded # Nil
       /\ r.path # last.entry.path
       /\ r.hash = files[r.path]
  /\ jobs[last.entry.id] = 0

\* C7: a job whose source file is present with the stored fingerprint is
\* cancelled by recovery: the job is removed, the intermediate artifact is
\* gone, every other file (the source included) is as it was, and no library
\* row changes, the entry staying pending.
C7_Cancelled ==
  [][\A e \in todo :
       (RecoverJob(e) /\ e.path \in DOMAIN files /\ files[e.path] = e.hash) =>
         LET inter == <<e.path[1], e.path[2] + 1, ".mp4">>
         IN /\ last'.op = "rollbackIncompleteJob"
            /\ last'.err = ""
            /\ jobs' = [jobs EXCEPT ![e.id] = 0]
            /\ DOMAIN files' = (DOMAIN files) \ {inter}
            /\ \A p \in DOMAIN files' : files'[p] = files[p]
            /\ library' = library
            /\ e \in library'
            /\ e.transcoded = Nil]_vars

\* Recovery cancelled a job whose source is in place and unchanged.
C7_Witness ==
  /\ last.op = "rollbackIncompleteJob"
  /\ last.err = ""
  /\ last.entry.path \in DOMAIN files
  /\ files[last.entry.path] = last.entry.hash
  /\ last.entry \in library
  /\ jobs[last.entry.id] = 0

\* C8: an Open that follows a successful Open, with no store operation in
\* between, changes no library row, no job and no file.
C8_Idempotent ==
  [][(opens >= 1 /\ opens' >= 1) => UNCHANGED <<library, jobs, seq, files>>]_vars

\* A second Open in a row has returned, on a store that holds a finalized entry.
C8_Witness ==
  /\ opens = 2
  /\ last.op = "Open returned"
  /\ \E r \in library : r.transcoded # Nil

\* C9: when recovering a job fails, Open fails, no handle is usable, and the
\* failing job and its entry are still in the store.
C9_Fatal ==
  [][\A e \in todo :
       (RecoverJob(e) /\ last'.err # "") =>
         /\ handle' = "closed"
         /\ jobs'[e.id] > 0
         /\ e \in library']_vars

\* The stored fingerprint differs from the source's and no file is at the
\* target path: the rehash of the target failed and Open with it.
C9_Witness ==
  /\ last.op = "completeIncompleteJob"
  /\ last.err = "failed to hash file"
  /\ handle = "closed"
  /\ jobs[last.entry.id] > 0

\* C10 (as claimed): applying Upsert a second time with the same entry leaves
\* exactly one row for it (its path under its fingerprint) and the store as
\* the first call left it.
C10_Claim ==
  [][(last'.op = "Upsert" /\ again') =>
       /\ <<library', jobs', seq'>> = <<library, jobs, seq>>
       /\ Cardinality({r \in library' : /\ r.path = last'.entry.path
                                        /\ r.hash = last'.entry.hash}) = 1]_vars

\* C11 (as claimed): Upsert of an entry whose fingerprint is that of a stored
\* row with another path leaves that row, same id and fingerprint, under the
\* incoming path, as the one row for the file, and the row count as it was.
C11_Claim ==
  [][last'.op = "Upsert" =>
       \A r \in library :
         (r.hash = last'.entry.hash /\ r.path # last'.entry.path) =>
           /\ [r EXCEPT !.path = last'.entry.path] \in library'
           /\ Cardinality({q \in library' : q.hash = r.hash}) = 1
           /\ Cardinality({q \in library' : q.path = last'.entry.path}) = 1
           /\ Cardinality(library') = Cardinality(library)]_vars

C14_Replaced ==
  [][last'.op = "Upsert" =>
       \A r \in library :
         (/\ r.path = last'.entry.path
          /\ jobs[r.id] = 0
          /\ \A q \in library : q.hash # last'.entry.hash) =>
           /\ last'.err = ""
           /\ \E n \in library' :
                /\ n.path = last'.entry.path
                /\ n.hash = last'.entry.hash
                /\ n.discovered = last'.entry.discovered
                /\ n.transcoded = last'.entry.transcoded
                /\ library' = (library \ {r}) \cup {n}
           /\ Cardinality({q \in library' : q.path = last'.entry.path}) = 1
           /\ jobs' = jobs]_vars

\* An Upsert has replaced a row by path, and its path is pending under the
\* incoming fingerprint.
C14_Witness ==
  /\ replaced
  /\ last.op = "Upsert"
  /\ last.entry.transcoded = Nil
  /\ \A i \in Ids : jobs[i] = 0
  /\ \E n \in library :
       /\ n.path = last.entry.path
       /\ n.hash = last.entry.hash
       /\ n.transcoded = Nil

\* C15: after every operation no two library rows share a path, a
\* fingerprint or an id, and an operation of the store that fails leaves
\* both tables as they were.
C15_Unique ==
  [][/\ \A r, q \in library' :
          (r.path = q.path \/ r.hash = q.hash \/ r.id = q.id) => r = q
     /\ (/\ last'.op \in {"Upsert", "Remove", "BeginTranscoding", "CompleteTranscoding",
                          "CancelTranscoding", "completeIncompleteJob",
                          "rollbackIncompleteJob"}
         /\ last'.err # "") =>
          <<library', jobs', seq'>> = <<library, jobs, seq>>]_vars

\* CompleteTranscoding has failed on a file whose fingerprint another row has.
C15_Witness ==
  /\ last.op = "CompleteTranscoding"
  /\ last.err = "UNIQUE constraint failed: library.hash"
  /\ \E r, q \in library :
       /\ r.id = last.entry.id
       /\ q.id # r.id
       /\ last.entry.path \in DOMAIN files
       /\ q.hash = files[last.entry.path]
       /\ r.transcoded = Nil

\* C16: when some entry is eligible (no completion timestamp, no job),
\* BeginTranscoding succeeds and returns the id, path and fingerprint of an
\* eligible entry whose discovery time is minimal among the eligible ones,
\* and adds one job, for that entry; no library row changes.
C16_OldestFirst ==
  [][last'.op = "BeginTranscoding" =>
       LET eligible == {r \in library : r.transcoded = Nil /\ jobs[r.id] = 0}
       IN eligible # {} =>
            /\ last'.err = ""
            /\ \E r \in eligible :
                 /\ last'.entry.id = r.id
                 /\ last'.entry.path = r.path
                 /\ last'.entry.hash = r.hash
                 /\ \A q \in eligible : r.discovered <= q.discovered
                 /\ jobs' = [jobs EXCEPT ![r.id] = 1]
            /\ library' = library]_vars

\* The entry claimed was inserted after, and discovered before, another
\* that is still eligible.
C16_Witness ==
  /\ last.op = "BeginTranscoding"
  /\ last.err = ""
  /\ \E r, q \in library :
       /\ r.id = last.entry.id
       /\ jobs[r.id] = 1
       /\ q.transcoded = Nil
       /\ jobs[q.id] = 0
       /\ q.id < r.id
       /\ r.discovered < q.discovered

\* C17: when no entry is eligible, BeginTranscoding fails with
\* ErrQueryReturnedNoRows and changes neither table.
C17_NoRows ==
  [][last'.op = "BeginTranscoding" =>
       LET eligible == {r \in library : r.transcoded = Nil /\ jobs[r.id] = 0}
       IN eligible = {} =>
            /\ last'.err = "no rows"
            /\ <<library', jobs', seq'>> = <<library, jobs, seq>>]_vars

\* BeginTranscoding found nothing in a library that holds a completed entry
\* and a claimed one.
C17_Witness ==
  /\ last.op = "BeginTranscoding"
  /\ last.err = ErrQueryReturnedNoRows
  /\ \E r, q \in library :
       /\ r.transcoded # Nil
       /\ q.transcoded = Nil
       /\ jobs[q.id] = 1

\* C18: a successful CompleteTranscoding sets, in one step, the row with the
\* entry's id to the given path, the fingerprint of the file at that path and
\* a completion timestamp, and removes the entry's job; the row's discovery
\* time, every other row, every other job and the files are unchanged.
C18_Completed ==
  [][(last'.op = "CompleteTranscoding" /\ last'.err = "") =>
       /\ \A r \in library :
            r.id = last'.entry.id =>
              \E n \in library' :
                /\ n.id = r.id
                /\ n.path = last'.entry.path
                /\ n.hash = files[last'.entry.path]
                /\ n.transcoded # Nil
                /\ n.discovered = r.discovered
                /\ library' = (library \ {r}) \cup {n}
       /\ jobs' = [jobs EXCEPT ![last'.entry.id] = 0]
       /\ seq' = seq
       /\ files' = files]_vars

\* An entry was completed under the target path and the fingerprint of the
\* file there, which is not the one it was claimed with.
C18_Witness ==
  /\ last.op = "CompleteTranscoding"
  /\ last.err = ""
  /\ \E n \in library :
       /\ n.id = last.entry.id
       /\ n.path = last.entry.path
       /\ n.hash = files[n.path]
       /\ n.hash # last.entry.hash
       /\ n.transcoded # Nil
       /\ jobs[n.id] = 0

\* C19: CancelTranscoding removes the entry's job and nothing else: no
\* library row, no other job and no file changes, and the entry, still
\* without a completion timestamp, is eligible again.
C19_Cancelled ==
  [][last'.op = "CancelTranscoding" =>
       /\ last'.err = ""
       /\ library' = library
       /\ jobs' = [jobs EXCEPT ![last'.entry.id] = 0]
       /\ seq' = seq
       /\ files' = files
       /\ \A r \in library' :
            (r.id = last'.entry.id /\ jobs[r.id] = 1) =>
              /\ r.transcoded = Nil
              /\ jobs'[r.id] = 0]_vars

\* A worker released its claim while the other worker holds one.
C19_Witness ==
  /\ last.op = "CancelTranscoding"
  /\ last.err = ""
  /\ \E r \in library :
       /\ r.id = last.entry.id
       /\ r.transcoded = Nil
       /\ jobs[r.id] = 0
  /\ \E w \in Workers : Holding(w) /\ jobs[ent[w].id] = 1

\* C20: Remove deletes, in one step, the library row with the entry's id and
\* the job that references it; every other row, every other job and the
\* files are unchanged.
C20_Removed ==
  [][last'.op = "Remove" =>
       /\ last'.err = ""
       /\ library' = {r \in library : r.id # last'.entry.id}
       /\ jobs' = [jobs EXCEPT ![last'.entry.id] = 0]
       /\ seq' = seq
       /\ files' = files]_vars

\* A claimed entry whose file had gone was removed with its job, while
\* another entry stays in the library.
C20_Witness ==
  /\ last.op = "Remove"
  /\ last.err = ""
  /\ \A r \in library : r.id # last.entry.id
  /\ jobs[last.entry.id] = 0
  /\ library # {}

\* C21 as stated: every entry that is queued and unconsumed when Stop is
\* called has, once Stop returned nil, been released: drained, without a job,
\* its row pending.
C21_Claim ==
  (pool.main = "stopped" /\ pool.result = NoErr) =>
    \A i \in pool.atStop :
      /\ pool.drained[i] = 1
      /\ jobs[i] = 0
      /\ \E r \in library : r.id = i /\ r.transcoded = Nil

\* C21: pool drain.  When a transcode pool is stopped and no error is
\* reported, Stop hands each entry that is still queued after every worker
\* has returned to drain: the entry's job is removed, its row stays as it was (pending, same path and
\* fingerprint), no other job and no file changes, and Stop returns nil with
\* the queue empty and no drained entry holding a job.
C21_Drained ==
  [][/\ (pool.main = "draining" /\ last'.op = "drain") =>
          LET e == last'.entry
          IN /\ e = Head(pool.queue)
             /\ HasJob(Store, e.id)
             /\ jobs' = [jobs EXCEPT ![e.id] = 0]
             /\ library' = library
             /\ files' = files
             /\ \E r \in library' : /\ r.id = e.id
                                    /\ r.transcoded = Nil
                                    /\ r.path = e.path
                                    /\ r.hash = e.hash
     /\ (pool.main = "draining" /\ pool'.main = "stopped") =>
          /\ pool'.result = NoErr
          /\ pool'.queue = << >>
          /\ \A i \in Ids : pool'.drained[i] > 0 => jobs'[i] = 0
    ]_vars

\* C21 happens: Stop returned nil after draining an entry, whose row is
\* pending and has no job.
C21_Witness ==
  /\ pool.main = "stopped"
  /\ pool.result = NoErr
  /\ \E r \in library : /\ pool.drained[r.id] = 1
                         /\ r.transcoded = Nil
                         /\ jobs[r.id] = 0

C23_ExactlyOnce ==
  /\ pool.main # "none" =>
       \A i \in Ids :
         /\ pool.consumed[i] + pool.drained[i] <= 1
         /\ pool.consumed[i] + pool.drained[i] = 1 => i \in pool.accepted
  /\ (pool.main = "stopped" /\ pool.result = NoErr) =>
       /\ pool.busy = {}
       /\ \A w \in Workers : pc[w] = "idle"
       /\ pool.started \subseteq pool.exited
       /\ pool.queue = << >>
       /\ \A i \in pool.accepted : pool.consumed[i] + pool.drained[i] = 1

\* C23 happens: Stop returned nil with one accepted entry consumed by a
\* worker and another drained.
C23_Witness ==
  /\ pool.main = "stopped"
  /\ pool.result = NoErr
  /\ \E i, j \in pool.accepted : pool.consumed[i] = 1 /\ pool.drained[j] = 1

\* C24: queueEntry returns (true, nil) exactly when the entry went into the
\* queue, (false, nil) only with the context cancelled, and (false, err) only
\* with err received from the error channel; it never returns (true, err).
\* An entry it returned false for is not in the queue and is never consumed
\* or drained.
C24_Outcomes ==
  [][/\ last'.op = "queueEntry" =>
          LET o == pool'.offer
          IN /\ o.entry = Head(pool.entries)
             /\ o.queued => o.err = NoErr
             /\ o.queued <=> pool'.queue = Append(pool.queue, o.entry)
             /\ ~o.queued => pool'.queue = pool.queue
             /\ (~o.queued /\ o.err = NoErr) => pool.cancelled
             /\ o.err # NoErr =>
                  /\ pool.errors # << >>
                  /\ o.err = Head(pool.errors)
                  /\ pool'.errors = Tail(pool.errors)
             /\ o.err = NoErr => pool'.errors = pool.errors
     /\ pool'.main # "none" =>
          \A i \in pool'.rejected :
            /\ pool'.consumed[i] = 0
            /\ pool'.drained[i] = 0
            /\ \A k \in 1..Len(pool'.queue) : pool'.queue[k].id # i
    ]_vars

\* C24 happens: one entry was accepted, and queueEntry returned (false, err)
\* for the next with a worker's error.
C24_Witness ==
  /\ pool.main = "returned"
  /\ pool.accepted # {}
  /\ ~pool.offer.queued
  /\ pool.offer.err # NoErr
  /\ pool.offer.entry.id \in pool.rejected

\* C25: every command that starts a pool calls Stop on every path out of its
\* submission loop: the command is never over, its loop entered, with Stop
\* not called.
C25_Claim ==
  (pool.main \in {"returned", "stopped"} /\ pool.accepted \cup pool.rejected # {}) => pool.stop

\* The store after the step.
StoreNext == [library |-> library', jobs |-> jobs', seq |-> seq']

\* C26: every store-mutating operation (Upsert, Remove, BeginTranscoding,
\* CompleteTranscoding, CancelTranscoding) holds the store's one lock from
\* the begin of its transaction to its commit or rollback: never are two
\* callers inside a transaction, and what a transaction returns and commits
\* is what the operation run alone on the store of that moment returns and
\* commits, so the store at any time is that of the transactions run one
\* after the other in the order of their commits.
C26_Serial ==
  [][/\ Cardinality(lock.held) <= 1
     /\ Cardinality(lock'.held) <= 1
     /\ \A w \in Workers :
          (w \in lock.held /\ w \notin lock'.held /\ last'.op = lock.call[w].op) =>
            \E res \in ApplyTx(lock.call[w].op, Store, fk, lock.call[w].entry, lock.hash[w]) :
              /\ res.store = StoreNext
              /\ res.err = last'.err
              /\ res.entry = last'.entry
    ]_vars

\* C26 happens: a caller is inside CompleteTranscoding's transaction while
\* another, its file fingerprinted, is about to enter its own.
C26_Witness ==
  \E w1, w2 \in Workers :
    /\ w1 # w2
    /\ w1 \in lock.held
    /\ lock.call[w1].op = "CompleteTranscoding"
    /\ pc[w2] = "hashed"
    /\ w2 \notin lock.held

\* The steps of the transform: the transcoder, the source file's removal,
\* the rename, and the fingerprint computation.
TransformOps == {"transcodeFunc", "transcodeFunc returned", "os.Remove", "os.Rename", "HashFile"}

\* C27: the transform runs outside the store lock.  A worker that takes a
\* step of the transform does not hold the lock, and a worker that holds the
\* lock is inside a transaction, with nothing of its transform left to do.
C27_Outside ==
  [][/\ \A w \in Workers :
          (pc'[w] # pc[w] /\ last'.op \in TransformOps) => w \notin lock.held
     /\ \A w \in lock'.held : pc'[w] \in {"tx", "hashed"}
    ]_vars

\* C27 happens: two workers run the transcoder on different entries at the
\* same time.
C27_Witness ==
  \E w1, w2 \in Workers :
    /\ w1 # w2
    /\ pc[w1] = "transcoding"
    /\ pc[w2] = "transcoding"
    /\ ent[w1].id # ent[w2].id
    /\ lock.held = {}

\* C28: after Close the handle is unusable.  Every Upsert, Remove,
\* BeginTranscoding, CompleteTranscoding, CancelTranscoding or Close invoked
\* on the closed handle fails (it panics on the nil d.db, or, for
\* CompleteTranscoding of a missing file, returns the hash error) and leaves
\* the persisted store as it was; the handle stays closed.
C28_Unusable ==
  [][(handle = "closed" /\ last'.op \in HandleOps) =>
       /\ last'.err # ""
       /\ StoreNext = Store
       /\ disk' = disk
       /\ files' = files
       /\ handle' = "closed"
    ]_vars

\* C28 happens: an Upsert on the closed handle failed that, run on an open
\* one, would have changed the store.
C28_Witness ==
  /\ handle = "closed"
  /\ last.op = "Upsert"
  /\ last.err = NilDereference
  /\ UpsertTx(Store, fk, last.entry).err = ""
  /\ UpsertTx(Store, fk, last.entry).store # Store

\* C29: Open hands out a handle only for a store that exists with
\* user_version 1.  With nothing at the location it fails with ErrNotFound,
\* with version 0 or a version above 1 with ErrUnknownVersion, and in both
\* cases recovery is not run and store and files stay as they were.  Create
\* fails with ErrAlreadyExists when anything is at the location, and changes
\* nothing.  Whenever a handle is open the store exists with version 1.
C29_Preconditions ==
  [][/\ (handle = "closed" /\ last'.op = "Open") =>
          IF ~disk.exists \/ disk.version = 0 \/ disk.version > 1
            THEN /\ last'.err = (IF ~disk.exists THEN "ErrNotFound" ELSE "ErrUnknownVersion")
                 /\ handle' = "closed"
                 /\ todo' = {}
                 /\ StoreNext = Store
                 /\ files' = files
                 /\ disk' = disk
            ELSE /\ last'.err = ""
                 /\ handle' = "opening"
                 /\ todo' = IncompleteJobs(Store)
     /\ (handle = "closed" /\ last'.op = "Create" /\ disk.exists) =>
          /\ last'.err = "ErrAlreadyExists"
          /\ handle' = "closed"
          /\ StoreNext = Store
          /\ files' = files
          /\ disk' = disk
     /\ handle' # "closed" => disk'.exists /\ disk'.version = 1
    ]_vars

\* C29 happens: Open returned ErrUnknownVersion for a store of version 2
\* that holds a job recovery would have settled.
C29_Witness ==
  /\ last.op = "Open"
  /\ last.err = "ErrUnknownVersion"
  /\ disk.version = 2
  /\ handle = "closed"
  /\ IncompleteJobs(Store) # {}

\* C30: transcoded media files are not transcoded again.  Once a row's
\* completion timestamp is populated it stays populated for as long as the
\* row exists, and a row's id is never handed out again; an Upsert of the
\* same fingerprint, under the same or another path, leaves the row and its
\* timestamp in place; BeginTranscoding returns only rows whose timestamp is
\* null, and the transcoder is started only on an entry whose row, where it
\* still exists, has a null timestamp.
C30_NotAgain ==
  [][/\ library' # library =>
          /\ \A r \in library : r.transcoded # Nil =>
               \A q \in library' : q.id = r.id => q.transcoded # Nil
          /\ \A q \in library' : (\A r \in library : r.id # q.id) => q.id > seq
     /\ last'.op = "Upsert" =>
          \A r \in library : (r.hash = last'.entry.hash /\ r.transcoded # Nil) =>
            \E q \in library' : q.id = r.id /\ q.transcoded = r.transcoded /\ q.hash = r.hash
     /\ (last'.op = "BeginTranscoding" /\ last'.err = "") =>
          \E r \in library : r.id = last'.entry.id /\ r.transcoded = Nil
     /\ \A w \in Workers : (pc[w] = "claimed" /\ pc'[w] = "transcoding") =>
          \A r \in library : r.id = ent[w].id => r.transcoded = Nil
    ]_vars

\* C30 happens: an update run upserted the fingerprint of a transcoded row
\* under another path; the row took the path and kept its timestamp.
C30_Witness ==
  /\ last.op = "Upsert"
  /\ last.err = ""
  /\ \E r \in library : /\ r.hash = last.entry.hash
                         /\ r.path = last.entry.path
                         /\ r.transcoded # Nil
                         /\ r.path[1] = "b"
                         /\ PathExists(files, <<"a", 0, ".mp4">>)
                         /\ files[<<"a", 0, ".mp4">>] = r.hash

\* C31: a store operation that returns an error leaves both tables exactly as
\* they were before the call, whichever of its statements failed.
C31_RolledBack ==
  [][(last'.op \in Transactions /\ last'.err # "") => StoreNext = Store]_vars

\* CompleteTranscoding failed on the disk after its update of the row; the
\* job is still open and the entry still pending, and a row committed
\* earlier is still there.
C31_Witness ==
  /\ last.op = "CompleteTranscoding"
  /\ last.err = IOError
  /\ jobs[last.entry.id] > 0
  /\ \E r \in library : r.id = last.entry.id /\ r.transcoded = Nil
  /\ Cardinality(library) = 2

\* C38: in every state the public operations of the store reach, an entry
\* with an open job has no completion timestamp.
C38_OpenJobPending ==
  \A r \in library : HasJob(Store, r.id) => r.transcoded = Nil

\* An Upsert that carries a completion timestamp met, by its fingerprint, an
\* entry whose job is open; a completed entry is in the store beside it.
C38_Witness ==
  /\ last.op = "Upsert"
  /\ last.err = ""
  /\ last.entry.transcoded # Nil
  /\ \E r \in library : r.hash = last.entry.hash /\ HasJob(Store, r.id)
  /\ \E r \in library : r.transcoded # Nil

\* C34: a worker whose consume failed sends exactly one error, the one of
\* that consume, returns, and receives no further entry; the error is added
\* to the error channel without waiting.  A worker returns only for its own
\* failure, for a cancellation it observed after a consume, or for the queue
\* being closed and empty: another worker's failure does not stop it.
C34_FailFast ==
  [][pool'.main # "none" =>
       \A w \in Workers :
         /\ pool'.sent[w] <= 1
         /\ pool'.sent[w] = 1 => w \in pool'.exited
         /\ (pool.main # "none" /\ pool'.sent[w] > pool.sent[w]) =>
              /\ pc[w] = "failed"
              /\ pool'.errors = Append(pool.errors, Err("failed to transcode entry", ent[w].id))
              /\ Len(pool'.errors) <= Cardinality(pool.started)
         /\ (pc[w] = "idle" /\ pc'[w] # "idle") =>
              /\ pool.sent[w] = 0
              /\ w \notin pool.exited
         /\ (pool.main # "none" /\ w \in pool'.exited \ pool.exited) =>
              \/ pool'.sent[w] > pool.sent[w]
              \/ pool.cancelled /\ w \in pool.busy
              \/ pool.stop /\ pool.queue = << >> /\ w \notin pool.busy
    ]_vars

\* One worker has failed and returned; after that the other received an
\* entry, which it is consuming.
C34_Witness ==
  /\ pool.main # "none"
  /\ \E w, v \in pool.started :
       /\ pool.sent[w] = 1
       /\ w \in pool.exited
       /\ v \in pool.busy
       /\ pc[v] = "claimed"
       /\ last = Op("consume", ent[v], "")
       /\ pool.sent[v] = 0
  /\ ~pool.cancelled

\* C35: with the context cancelled a consume that is under way is not cut
\* short: it ends with its entry finalized or with its own error.  A worker
\* begins at most one consume after the cancellation and returns when that
\* consume is over.  When Stop then returns nil the queue is empty and every
\* accepted entry no worker received was drained: its job is gone and its
\* row is pending.
C35_Cancelled ==
  [][pool'.main # "none" =>
       /\ \A w \in Workers :
            /\ (pool.main # "none" /\ pool.cancelled /\ pc[w] # "idle" /\ pc'[w] = "idle") =>
                 \/ pc[w] = "failed" /\ pool'.sent[w] = pool.sent[w] + 1
                 \/ /\ pc[w] = "renamed"
                    /\ jobs'[ent[w].id] = 0
                    /\ \E r \in library' : r.id = ent[w].id /\ r.transcoded # Nil
            /\ pool'.after[w] <= 1
            /\ (pool'.after[w] = 1 /\ w \notin pool'.busy) => w \in pool'.exited
            /\ (pool'.cancelled /\ w \in pool'.exited) => pc'[w] = "idle"
       /\ (pool'.main = "stopped" /\ pool'.result = NoErr /\ pool'.cancelled) =>
            /\ pool'.queue = << >>
            /\ \A i \in pool'.accepted :
                 pool'.consumed[i] = 0 =>
                   /\ pool'.drained[i] = 1
                   /\ jobs'[i] = 0
                   /\ \E r \in library' : r.id = i /\ r.transcoded = Nil
    ]_vars

\* The command was interrupted with two entries queued; a worker then
\* received one and finalized it, and Stop drained the other and returned nil.
C35_Witness ==
  /\ pool.main = "stopped"
  /\ pool.result = NoErr
  /\ pool.cancelled
  /\ \E w \in pool.exited : pool.after[w] = 1
  /\ \E i, j \in pool.accepted :
       /\ pool.consumed[i] = 1
       /\ \E r \in library : r.id = i /\ r.transcoded # Nil
       /\ pool.drained[j] = 1
       /\ jobs[j] = 0

\* C40 (as claimed): when Stop has returned nil, so that the transcode
\* command closes the store and returns nil, no job is left in the store.
C40_Claim ==
  (pool.main = "stopped" /\ pool.result = NoErr) => \A i \in Ids : jobs[i] = 0

\* C36: in transcode's claim loop an entry whose source file is gone is
\* removed with its job, is not kept for submission, does not count towards
\* the requested number, and the loop goes on; the loop is left for the
\* submission only with the requested number of entries, each with its source
\* in place, or when BeginTranscoding finds no eligible row, and a missing
\* source never ends the command.
C36_MissingSource ==
  [][pool.main = "claiming" =>
       /\ last'.op = "Remove" =>
            LET e == last'.entry
            IN /\ e.path \notin DOMAIN files
               /\ \E r \in Eligible(Store) : r.id = e.id
               /\ ~(\E r \in library' : r.id = e.id)
               /\ jobs' = jobs
               /\ jobs[e.id] = 0
               /\ pool'.entries = pool.entries
               /\ pool'.main = "claiming"
       /\ pool'.entries # pool.entries =>
            /\ pool'.entries = Append(pool.entries, last'.entry)
            /\ last'.entry.path \in DOMAIN files
            /\ jobs'[last'.entry.id] > 0
            /\ last'.entry.id \notin pool'.removed
       /\ pool'.main = "starting" =>
            /\ Len(pool.entries) = MaxEntries \/ Eligible(Store) = {}
            /\ pool'.entries = pool.entries
       /\ pool'.main = "returned" => last'.op = "BeginTranscoding" /\ last'.err # ""
       /\ Len(pool'.entries) <= MaxEntries
    ]_vars

\* The loop removed an entry whose file was gone, went on, claimed the other
\* entry and then found no eligible row.
C36_Witness ==
  /\ pool.main = "starting"
  /\ pool.removed # {}
  /\ Len(pool.entries) = 1
  /\ last = Op("BeginTranscoding", ZeroEntry, ErrQueryReturnedNoRows)
  /\ Cardinality(library) = 1

\* C39 (as claimed): the pool cannot deadlock.  The command is never inside
\* a queueEntry call none of whose cases is ready or can become ready by a
\* worker's step: the context not cancelled, the queue full, no error
\* waiting, and no worker left to receive from the queue.
C39_Claim ==
  ~(/\ pool.main = "queueing"
    /\ pool.entries # << >>
    /\ queueEntry(pool, Head(pool.entries)) = {}
    /\ pool.started \subseteq pool.exited)

\* C37 (as claimed): when convert has run through with at least one worker
\* and without interruption and Stop returned nil, a file named in both lists
\* of the overlay has its single library row marked transcoded.
C37_Claim ==
  (pool.main = "stopped" /\ pool.result = NoErr /\ ~pool.cancelled /\ pool.started # {}) =>
    \A path \in pool.overlay.untranscoded \cap pool.overlay.transcoded :
      /\ Cardinality({r \in library : r.path = path}) = 1
      /\ \A r \in library : r.path = path => r.transcoded # Nil

\* The bytes of "Hello, World!", the first file of TestHashFile.
HelloWorld == <<72, 101, 108, 108, 111, 44, 32, 87, 111, 114, 108, 100, 33>>

\* The offset the first seek of a fingerprinting run on data leaves the file at.
FirstSeek(data) ==
  Len(Read(data, 0)) + Mod(Update(Zero, Read(data, 0)), MaxSeekSize)

\* C32: the fingerprint is taken by sampling.  A read takes the next block
\* of up to BufferSize bytes, short only at the end of the file, and folds
\* it into the running CRC-32; the seek that follows moves the offset forward
\* by the digest modulo MaxSeekSize; the run ends with the digest when a read
\* returns no bytes.  So two files with the same first block whose first
\* seek lands at or past the end of both have the same fingerprint.  The
\* CRC-32 is the IEEE one: it gives the test's value for "Hello, World!".
C32_Sampling ==
  [][/\ (rd.at = "read" /\ rd'.at = "seek") =>
          LET block == SubSeq(rd.data, rd.pos + 1, rd'.pos)
          IN /\ Len(block) \in 1..BufferSize
             /\ Len(block) = BufferSize \/ rd'.pos = Len(rd.data)
             /\ rd'.digest = Update(rd.digest, block)
     /\ (rd.at = "seek" /\ rd'.at = "read") =>
          /\ rd'.pos = rd.pos + Mod(rd.digest, MaxSeekSize)
          /\ rd'.digest = rd.digest
     /\ (rd.at = "read" /\ rd'.at = "done" /\ ~rd'.failed /\ rd'.out.err = "") =>
          /\ rd.pos >= Len(rd.data)
          /\ rd'.out.hash = rd.digest
     /\ (rd.at = "read" /\ rd'.at = "done" /\ ~rd'.failed) =>
          /\ rd'.out = Hash("", hashReader(rd.data, 0, Zero))
          /\ \A other \in Contents :
               (/\ Read(other, 0) = Read(rd.data, 0)
                /\ FirstSeek(rd.data) >= Len(rd.data)
                /\ FirstSeek(other) >= Len(other)) =>
                 hashReader(other, 0, Zero) = rd'.out.hash
     /\ Update(Zero, HelloWorld) = Word(60490, 50128)
    ]_vars

\* A file of two blocks of one repeated byte has been fingerprinted with a
\* single read, its second block never read: its fingerprint is that of the
\* file holding just one such block.
C32_Witness ==
  /\ rd.at = "done"
  /\ ~rd.failed
  /\ rd.out.err = ""
  /\ rd.reads = 1
  /\ \E b \in Bytes :
       /\ rd.data = [i \in 1..(2 * BufferSize) |-> b]
       /\ rd.out.hash = hashReader([i \in 1..BufferSize |-> b], 0, Zero)

\* C33 (as claimed): HashFile never returns a fingerprint with a nil error
\* when a read of the stream failed with an error other than io.EOF.
C33_Claim ==
  (rd.at = "done" /\ rd.failed) => rd.out.err # ""

====
